---- MODULE Spec2Model ----
(***************************************************************************)
(* Allocator subsystem of fiserj/core: the fixed Arena, the growable       *)
(* SlabArena over a heap backing allocator, the context allocators, the    *)
(* dynamic Array that consumes them, and the Slice views.                  *)
(*                                                                         *)
(* Addresses are natural numbers, NULL is 0.  Sizes are scaled down; no    *)
(* request comes near the width of Size, so offset + new never overflows.  *)
(***************************************************************************)
EXTENDS Integers, Sequences, FiniteSets, TLC

VARIABLES
  arena,   \* fixed Arena: [base, len, head]                      (core.h:870)
  mem,     \* bytes at base + i, i in 0 .. len + slack - 1 (arena buffer, then
           \* the memory that follows it); in SpecSlice the elements of the
           \* array the slices view
  cur,     \* the block the caller holds: [ptr, size], ptr = NULL when none;
           \* in SpecSlice the Slice<T> the caller holds: [data, len]
  op,      \* the last call and its outcome
  heap,    \* the heap behind std_alloc: [next, live, dfree, ifree, addr]
  slab,    \* SlabArena: [slabs, cap, list, head, alive]           (core.h:887)
  handed,  \* end offset of the last block handed out from the active slab
  ctx,     \* the context allocator: [val, scopes]          (core.cpp:218-221)
  arr      \* Array<T>: [exists, data, len, cap, alloc, owner]     (core.h:727)

vars == <<arena, mem, cur, op, heap, slab, handed, ctx, arr>>

(***************************************************************************)
(* Bounds of the model.                                                    *)
(***************************************************************************)
ArenaLen == 6      \* length of the fixed arena's buffer in SpecArena
MaxReq == 4        \* largest request size drawn
MaxAlignLog == 2   \* alignments drawn are 2^0 .. 2^MaxAlignLog
BaseSpread == 3    \* buffer base addresses drawn are FirstBase .. FirstBase + BaseSpread
MemLen == 3        \* length of the arena buffer in SpecMem
SlabSize == 2      \* _slab_size given to make_slab_arena in SpecSlab
MaxBlocks == 5     \* heap blocks ever allocated in a behaviour of SpecSlab
MaxListBlocks == 12 \* heap blocks ever allocated in a behaviour of SpecSlabList
MaxHeapBlocks == 2 \* heap blocks ever allocated in a behaviour of SpecHeap
MaxSlabMemBlocks == 3 \* heap blocks ever allocated by the slab arena in SpecZero
SlabMemSize == 1   \* _slab_size given to make_slab_arena in SpecZero
AlignArenaLen == 72 \* length of the fixed arena's buffer in SpecAlign
AlignSlabSize == 52 \* _slab_size given to make_slab_arena in SpecAlign
HeapLen == 2       \* largest request to std_alloc in SpecHeap
MaxLen == 3        \* largest array length and reserve target is MaxLen + 1
MaxInitCap == 2    \* largest capacity given to make_array
MaxVal == 1        \* array elements are 0 .. MaxVal
MaxScopes == 2     \* nested scope_alloc scopes
MaxSliceLen == 2   \* longest slice given to append(Array<T>&, Slice)
TempBufLen == 4    \* length of the temporary allocator's buffer (4 MiB scaled)
GrowLen == 28      \* values appended one at a time in SpecGrowth
NumThreads == 2    \* threads that use the context allocator in SpecThreads
RingLen == 3       \* longest backing buffer of a Ring
MaxMergeLen == 2   \* longest input of merge; dst has up to 2 * MaxMergeLen + 1

NULL == 0
FirstBase == 8
DEFAULT_ALIGN == 16
SlabListCap == 8
DirtyByte == 255

RECURSIVE Pow2(_)
Pow2(n) == IF n = 0 THEN 1 ELSE 2 * Pow2(n - 1)

Aligns == {Pow2(k) : k \in 0..MaxAlignLog}
\* Byte values: zero, and the byte a dirty buffer is filled with.
Bytes == {0, DirtyByte}

\* Allocator::Flags
FREE_ALL == "FREE_ALL"
NON_ZERO == "NON_ZERO"
NO_PANIC == "NO_PANIC"

(***************************************************************************)
(* Small utilities.                                                        *)
(***************************************************************************)
max(a, b) == IF a > b THEN a ELSE b
min(a, b) == IF a < b THEN a ELSE b

\* x & y on naturals, bit by bit.
RECURSIVE BitAnd(_, _)
BitAnd(x, y) ==
  IF x = 0 \/ y = 0 THEN 0
  ELSE (x % 2) * (y % 2) + 2 * BitAnd(x \div 2, y \div 2)

\* (_value + _align - 1) & ~(_align - 1); x & ~m = x - (x & m)
align_up(value, align) ==
  LET s == value + align - 1 IN s - BitAnd(s, align - 1)

is_power_of_two(value) == value = 0 \/ BitAnd(value, value - 1) = 0

(***************************************************************************)
(* copy(): memcpy of _src_size bytes, then the zero fill of the rest of    *)
(* the destination.  m is the memory as a function of the address, src the *)
(* bytes of the source block read before the call.                         *)
(***************************************************************************)
copy_written(dst, dst_size, src_size, zero_mem) ==
  {dst + i : i \in 0..(src_size - 1)}
    \cup (IF zero_mem /\ dst_size > src_size
          THEN {dst + i : i \in src_size..(dst_size - 1)} ELSE {})

copy_without_fill(m, dst, dst_size, src, src_size, zero_mem) ==
  [a \in DOMAIN m |-> IF a >= dst /\ a < dst + src_size THEN src[a - dst + 1] ELSE m[a]]

copy(m, dst, dst_size, src, src_size, zero_mem) ==
  [a \in DOMAIN m |->
     IF a >= dst /\ a < dst + src_size THEN src[a - dst + 1]
     ELSE IF zero_mem /\ dst_size > src_size /\ a >= dst + src_size /\ a < dst + dst_size
          THEN 0
     ELSE m[a]]

(***************************************************************************)
(* SIMPLE ARENA                                                            *)
(***************************************************************************)
make_arena(base, len) == [base |-> base, len |-> len, head |-> 0]

arena_offset_of_head(a, align) == align_up(a.head, align)
\* Size offset = align_up(_arena.buf.data + _arena.head, _align) - _arena.buf.data
arena_offset(a, align) == align_up(a.base + a.head, align) - a.base

arena_fits_wrong(a, new, align) == arena_offset(a, align) + new < a.len
arena_fits_ignores_size(a, new, align) == arena_offset(a, align) <= a.len
\* !(offset + _new > _arena.buf.len)
arena_fits(a, new, align) == arena_offset(a, align) + new <= a.len

arena_free_all_keeps_head(a) == [arena |-> a, ret |-> NULL, panic |-> FALSE]
\* if (_flags & Allocator::FREE_ALL) { _arena.head = 0; return nullptr; }
arena_free_all(a) == [arena |-> [a EXCEPT !.head = 0], ret |-> NULL, panic |-> FALSE]

arena_free_rewinds(a) == [arena |-> [a EXCEPT !.head = 0], ret |-> NULL, panic |-> FALSE]
\* if (_new <= 0) { return nullptr; }
arena_free(a) == [arena |-> a, ret |-> NULL, panic |-> FALSE]

arena_out_of_memory_fills(a, flags) ==
  [arena |-> [a EXCEPT !.head = a.len], ret |-> NULL, panic |-> NO_PANIC \notin flags]
\* panic_if(!(_flags & Allocator::NO_PANIC), ...); return nullptr;
arena_out_of_memory(a, flags) ==
  [arena |-> a, ret |-> NULL, panic |-> NO_PANIC \notin flags]

\* The bump part of arena_alloc: the arena after the call, the returned
\* address and whether the call panicked.
arena_alloc(a, new, align, flags) ==
  IF FREE_ALL \in flags THEN arena_free_all(a)
  ELSE IF new <= 0 THEN arena_free(a)
  ELSE IF ~arena_fits(a, new, align) THEN arena_out_of_memory(a, flags)
  ELSE LET offset == arena_offset(a, align) IN
       [arena |-> [a EXCEPT !.head = offset + new],
        ret |-> a.base + offset, panic |-> FALSE]

\* The bytes of the block [ptr, ptr + size) as the caller's memcpy reads them.
Block(m, base, ptr, size) == [i \in 1..size |-> m[ptr - base + i - 1]]

\* The buffer and the memory that follows it: a new block starts after the old
\* one (old <= dst <= len - 1), so the copy of the old block ends by 2 * len - 3.
MemDomain(len) == 0..max(len - 1, 2 * len - 3)

NoBlock == [ptr |-> NULL, size |-> 0]
NoOp == [name |-> "init", ptr |-> NULL, old |-> 0, new |-> 0, align |-> 1,
         flags |-> {}, head |-> 0, ret |-> NULL, panic |-> FALSE, src |-> <<>>,
         written |-> {}, fresh |-> <<>>]

\* Values of the variables a specification does not use.
IdleHeap == [next |-> 1, live |-> {}, dfree |-> FALSE, ifree |-> FALSE, addr |-> <<>>]
IdleSlab == [slabs |-> <<>>, cap |-> 0, list |-> NULL, head |-> 0, alive |-> FALSE]
IdleArena == [base |-> NULL, len |-> 0, head |-> 0]
IdleCtx == [val |-> "std", scopes |-> <<>>]
NoArray == [exists |-> FALSE, data |-> <<>>, len |-> 0, cap |-> 0, alloc |-> "none",
            owner |-> "none"]

\* reallocate(alloc, ptr, old, new, align, flags) on make_alloc(Arena&); the
\* caller passes the block it holds (usePtr) or nullptr.
ArenaRealloc(usePtr, new, align, flags) ==
  LET ptr == IF usePtr THEN cur.ptr ELSE NULL
      old == IF usePtr THEN cur.size ELSE 0
      r == arena_alloc(arena, new, align, flags)
      src == IF old > 0 THEN Block(mem, arena.base, ptr, old) ELSE <<>>
      zero == NON_ZERO \notin flags
      dst == r.ret - arena.base
  IN
  /\ usePtr => cur.ptr # NULL
  /\ is_power_of_two(align)
  /\ arena' = r.arena
  /\ mem' = IF r.ret = NULL THEN mem ELSE copy(mem, dst, new, src, old, zero)
  /\ cur' = IF r.ret # NULL THEN [ptr |-> r.ret, size |-> new]
            ELSE IF new <= 0 /\ usePtr THEN NoBlock ELSE cur
  /\ op' = [name |-> "arena_realloc", ptr |-> ptr, old |-> old, new |-> new,
            align |-> align, flags |-> flags, head |-> arena.head, ret |-> r.ret,
            panic |-> r.panic, src |-> src,
            written |-> IF r.ret = NULL THEN {}
                        ELSE {arena.base + x : x \in copy_written(dst, new, old, zero)},
            fresh |-> IF r.ret = NULL THEN <<>> ELSE Block(mem, arena.base, r.ret, new)]
  /\ UNCHANGED <<heap, slab, handed, ctx, arr>>

\* free_all(alloc): reallocate(alloc, nullptr, 0, 0, DEFAULT_ALIGN, FREE_ALL)
ArenaFreeAll ==
  LET r == arena_alloc(arena, 0, 1, {FREE_ALL}) IN
  /\ arena' = r.arena
  /\ mem' = mem
  /\ cur' = NoBlock
  /\ op' = [NoOp EXCEPT !.name = "arena_free_all", !.flags = {FREE_ALL},
                        !.head = arena.head, !.ret = r.ret]
  /\ UNCHANGED <<heap, slab, handed, ctx, arr>>

\* The caller stores a byte in the block it holds.
Write(i, v) ==
  /\ cur.ptr # NULL
  /\ i < cur.size
  /\ mem[cur.ptr - arena.base + i] # v
  /\ mem' = [mem EXCEPT ![cur.ptr - arena.base + i] = v]
  /\ op' = [NoOp EXCEPT !.name = "write"]
  /\ UNCHANGED <<arena, cur, heap, slab, handed, ctx, arr>>

InitArena ==
  /\ \E b \in FirstBase..(FirstBase + BaseSpread) : arena = make_arena(b, ArenaLen)
  /\ mem = [a \in MemDomain(ArenaLen) |-> 0]
  /\ cur = NoBlock
  /\ op = NoOp
  /\ heap = IdleHeap /\ slab = IdleSlab /\ handed = 0
  /\ ctx = IdleCtx /\ arr = NoArray

NextArena ==
  \/ \E usePtr \in BOOLEAN, new \in 0..MaxReq, align \in Aligns, np \in BOOLEAN :
       ArenaRealloc(usePtr, new, align, IF np THEN {NO_PANIC} ELSE {})
  \/ ArenaFreeAll

SpecArena == InitArena /\ [][NextArena]_vars

\* The same requests with every alignment from 0 up to one past the largest
\* power of two drawn: debug_assert(is_power_of_two(_align)) is all that stands
\* between the caller's argument and align_up.  Once head has left the buffer
\* the arena is not followed further.
NextArenaAnyAlign ==
  \/ \E usePtr \in BOOLEAN, new \in 0..MaxReq, align \in 0..(Pow2(MaxAlignLog) + 1) :
       /\ 0 <= arena.head /\ arena.head <= arena.len
       /\ ArenaRealloc(usePtr, new, align, {NO_PANIC})
  \/ ArenaFreeAll

SpecArenaAnyAlign == InitArena /\ [][NextArenaAnyAlign]_vars

\* The arena over a buffer that held data before (fill), its bytes observed.
InitMem ==
  /\ arena = make_arena(FirstBase, MemLen)
  /\ \E fill \in Bytes : mem = [a \in MemDomain(MemLen) |-> fill]
  /\ cur = NoBlock
  /\ op = NoOp
  /\ heap = IdleHeap /\ slab = IdleSlab /\ handed = 0
  /\ ctx = IdleCtx /\ arr = NoArray

NextMem ==
  \/ \E usePtr \in BOOLEAN, new \in 0..MemLen, align \in {1, 2},
         flags \in {{NO_PANIC}, {NO_PANIC, NON_ZERO}} :
       ArenaRealloc(usePtr, new, align, flags)
  \/ ArenaFreeAll
  \/ \E i \in 0..(MemLen - 1), v \in Bytes : Write(i, v)

SpecMem == InitMem /\ [][NextMem]_vars


(***************************************************************************)
(* HEAP (std_alloc)                                                        *)
(* Block number k, allocated with alignment a, lies at the address         *)
(* k * BlockStride + a: a multiple of a and of no larger power of two, the *)
(* least aligned address aligned_malloc may return.  live holds the        *)
(* numbers of the blocks not yet freed, addr the address of every block    *)
(* ever allocated; dfree and ifree record that aligned_free was given a    *)
(* block already freed, or an address that is not the start of a block.    *)
(***************************************************************************)
BlockStride == DEFAULT_ALIGN * DEFAULT_ALIGN
BlockAddr(id, align) == id * BlockStride + align

\* const size_t align = max(DEFAULT_ALIGN, size_t(_align))
heap_align(align) == max(DEFAULT_ALIGN, align)

aligned_free(h, p) ==
  IF p = NULL THEN h
  ELSE IF \A id \in DOMAIN h.addr : h.addr[id] # p THEN [h EXCEPT !.ifree = TRUE]
  ELSE IF (p \div BlockStride) \in h.live
       THEN [h EXCEPT !.live = @ \ {p \div BlockStride}]
  ELSE [h EXCEPT !.dfree = TRUE]

std_free_all_suppressible(h, flags) ==
  [heap |-> h, ret |-> NULL, panic |-> NO_PANIC \notin flags]
\* panic_if(_flags & Allocator::FREE_ALL, "std_alloc() doesn't support FREE_ALL mode.")
std_free_all(h, flags) == [heap |-> h, ret |-> NULL, panic |-> TRUE]

std_alloc_frees_first(h, ptr, old, new, align, flags, ok) ==
  IF FREE_ALL \in flags THEN std_free_all(h, flags)
  ELSE IF new <= 0 \/ ~ok
       THEN [heap |-> aligned_free(h, ptr), ret |-> NULL,
             panic |-> new > 0 /\ NO_PANIC \notin flags]
  ELSE LET p == BlockAddr(h.next, heap_align(align)) IN
       [heap |-> aligned_free([h EXCEPT !.next = @ + 1, !.live = @ \cup {h.next},
                                        !.addr = Append(@, p)], ptr),
        ret |-> p, panic |-> FALSE]

\* ok: whether aligned_malloc returns a block.
std_alloc(h, ptr, old, new, align, flags, ok) ==
  IF FREE_ALL \in flags THEN std_free_all(h, flags)
  ELSE IF new <= 0 THEN [heap |-> aligned_free(h, ptr), ret |-> NULL, panic |-> FALSE]
  ELSE IF ~ok THEN [heap |-> h, ret |-> NULL, panic |-> NO_PANIC \notin flags]
  ELSE LET p == BlockAddr(h.next, heap_align(align)) IN
       [heap |-> aligned_free([h EXCEPT !.next = @ + 1, !.live = @ \cup {h.next},
                                        !.addr = Append(@, p)], ptr),
        ret |-> p, panic |-> FALSE]

\* What a block of n bytes fresh from aligned_malloc may hold.
Garbage(n) == [0..(n - 1) -> Bytes]

NoMem == [a \in {} |-> 0]

\* reallocate / allocate / free / free_all on std_alloc().  mem holds the bytes
\* at the addresses of the block the caller holds, and those that follow it as
\* far as copy() reaches; garbage is what the new block holds when
\* aligned_malloc returns it.
HeapRealloc(usePtr, new, align, flags, ok, garbage) ==
  LET ptr == IF usePtr THEN cur.ptr ELSE NULL
      old == IF usePtr THEN cur.size ELSE 0
      r == std_alloc(heap, ptr, old, new, align, flags, ok)
      src == IF old > 0 THEN Block(mem, NULL, ptr, old) ELSE <<>>
      zero == NON_ZERO \notin flags
      g == [a \in r.ret..(r.ret + max(old, new) - 1) |-> garbage[a - r.ret]]
      freed == r.ret = NULL /\ usePtr /\ r.heap # heap
  IN
  /\ usePtr => cur.ptr # NULL
  /\ is_power_of_two(align)
  /\ heap' = r.heap
  /\ mem' = IF r.ret # NULL THEN copy(g, r.ret, new, src, old, zero)
            ELSE IF freed THEN NoMem ELSE mem
  /\ cur' = IF r.ret # NULL THEN [ptr |-> r.ret, size |-> new]
            ELSE IF freed THEN NoBlock ELSE cur
  /\ op' = [NoOp EXCEPT !.name = "heap_realloc", !.ptr = ptr, !.old = old, !.new = new,
              !.align = align, !.flags = flags, !.ret = r.ret, !.panic = r.panic,
              !.src = src,
              !.written = IF r.ret = NULL THEN {}
                          ELSE copy_written(r.ret, new, old, zero),
              !.fresh = IF r.ret = NULL THEN <<>> ELSE Block(g, NULL, r.ret, new)]
  /\ UNCHANGED <<arena, slab, handed, ctx, arr>>

\* The caller stores a byte in the heap block it holds.
HeapWrite(i, v) ==
  /\ cur.ptr # NULL
  /\ i < cur.size
  /\ mem[cur.ptr + i] # v
  /\ mem' = [mem EXCEPT ![cur.ptr + i] = v]
  /\ op' = [NoOp EXCEPT !.name = "write"]
  /\ UNCHANGED <<arena, cur, heap, slab, handed, ctx, arr>>

InitHeap ==
  /\ heap = IdleHeap
  /\ mem = NoMem
  /\ cur = NoBlock
  /\ op = NoOp
  /\ arena = IdleArena /\ slab = IdleSlab /\ handed = 0
  /\ ctx = IdleCtx /\ arr = NoArray

\* Requests that are served, requests for which aligned_malloc finds no memory,
\* requests with FREE_ALL, and the caller's stores.  The caller holds one block
\* at a time and passes it to every call.
NextHeap ==
  \/ /\ heap.next <= MaxHeapBlocks
     /\ \E usePtr \in {cur.ptr # NULL}, new \in 0..HeapLen, nz \in BOOLEAN :
          \E garbage \in Garbage(max(new, IF usePtr THEN cur.size ELSE 0)) :
            HeapRealloc(usePtr, new, 1, IF nz THEN {NON_ZERO} ELSE {}, TRUE, garbage)
  \/ \E usePtr \in {cur.ptr # NULL}, new \in 1..HeapLen, np \in BOOLEAN :
       HeapRealloc(usePtr, new, 1, IF np THEN {NO_PANIC} ELSE {}, FALSE,
                   NoMem)
  \/ \E usePtr \in {cur.ptr # NULL}, new \in 0..HeapLen, flags \in SUBSET {NON_ZERO, NO_PANIC} :
       HeapRealloc(usePtr, new, 1, flags \cup {FREE_ALL}, TRUE,
                   NoMem)
  \/ \E i \in 0..(HeapLen - 1), v \in Bytes : HeapWrite(i, v)

SpecHeap == InitHeap /\ [][NextHeap]_vars

(***************************************************************************)
(* SLAB ARENA                                                              *)
(***************************************************************************)
next_cap_linear(cap, req) == max(8, req)

\* detail::next_cap(_cap, _req)
next_cap(cap, req) == max(max(8, req), (cap * 3) \div 2)

\* append(arena.slabs, slice): reserve (default flags) when len = cap.
slabs_append(sa, h, item, ok) ==
  IF Len(sa.slabs) = sa.cap
  THEN LET newcap == next_cap(sa.cap, Len(sa.slabs) + 1)
           r == std_alloc(h, sa.list, sa.cap, newcap, DEFAULT_ALIGN, {}, ok)
       IN IF r.panic THEN [slab |-> sa, heap |-> r.heap, panic |-> TRUE]
          ELSE [slab |-> [sa EXCEPT !.list = r.ret, !.cap = newcap,
                                    !.slabs = Append(@, item)],
                heap |-> r.heap, panic |-> FALSE]
  ELSE [slab |-> [sa EXCEPT !.slabs = Append(@, item)], heap |-> h, panic |-> FALSE]

\* make_slab_arena(_alloc, _slab_size) over std_alloc.
make_slab_arena(slab_size) ==
  LET l == std_alloc(IdleHeap, NULL, 0, SlabListCap, DEFAULT_ALIGN, {}, TRUE)
      d == std_alloc(l.heap, NULL, 0, slab_size, DEFAULT_ALIGN, {}, TRUE)
      sa == [slabs |-> <<>>, cap |-> SlabListCap, list |-> l.ret, head |-> 0,
             alive |-> TRUE]
  IN slabs_append(sa, d.heap, [data |-> d.ret, len |-> slab_size], TRUE)

\* arena.head = size
slab_head_after_growth(new, size) == size

slab_growth_size_wrong(new, first_len) == first_len
\* const Size size = max(_new, arena.slabs[0].len)
slab_growth_size(new, first_len) == max(new, first_len)

\* The allocator callback of make_alloc(SlabArena&) without FREE_ALL.
slab_alloc(sa, h, ptr, old, new, align, flags, okSlab, okList) ==
  IF new <= 0 THEN [slab |-> sa, heap |-> h, ret |-> NULL, panic |-> FALSE, grew |-> FALSE]
  ELSE
  LET last == sa.slabs[Len(sa.slabs)]
      view == [base |-> last.data, len |-> last.len, head |-> sa.head]
      a == arena_alloc(view, new, align, flags \cup {NO_PANIC})
      size == slab_growth_size(new, sa.slabs[1].len)
      g == std_alloc(h, ptr, old, size, align, flags, okSlab)
      ap == slabs_append(sa, g.heap, [data |-> g.ret, len |-> size], okList)
  IN IF a.ret # NULL
     THEN [slab |-> [sa EXCEPT !.head = a.arena.head], heap |-> h, ret |-> a.ret,
           panic |-> FALSE, grew |-> FALSE]
     ELSE IF g.ret = NULL
     THEN [slab |-> sa, heap |-> g.heap, ret |-> NULL, panic |-> g.panic, grew |-> FALSE]
     ELSE IF ap.panic
     THEN [slab |-> ap.slab, heap |-> ap.heap, ret |-> NULL, panic |-> TRUE, grew |-> FALSE]
     ELSE [slab |-> [ap.slab EXCEPT !.head = slab_head_after_growth(new, size)],
           heap |-> ap.heap, ret |-> g.ret, panic |-> FALSE, grew |-> TRUE]

\* free(*arena.slabs.alloc, slabs[i].data, slabs[i].len) for i = from .. len
RECURSIVE free_slabs(_, _, _)
free_slabs(h, slabs, from) ==
  IF from > Len(slabs) THEN h
  ELSE free_slabs(std_alloc(h, slabs[from].data, slabs[from].len, 0, DEFAULT_ALIGN,
                            {}, TRUE).heap,
                  slabs, from + 1)

\* The FREE_ALL branch: the slabs after the first freed (released: the pointers
\* given to free, in order), resize(arena.slabs, 1), head = 0.
slab_free_all(sa, h) ==
  [slab |-> [sa EXCEPT !.slabs = SubSeq(@, 1, 1), !.head = 0],
   heap |-> free_slabs(h, sa.slabs, 2),
   released |-> [i \in 1..(Len(sa.slabs) - 1) |-> sa.slabs[i + 1].data]]

\* destroy(SlabArena&): every slab, then destroy(_arena.slabs).
slab_destroy(sa, h) ==
  [slab |-> [sa EXCEPT !.alive = FALSE],
   heap |-> std_alloc(free_slabs(h, sa.slabs, 1), sa.list, sa.cap, 0, DEFAULT_ALIGN,
                      {}, TRUE).heap]

SlabNoOp == [name |-> "init", ptr |-> NULL, old |-> 0, new |-> 0, align |-> 1,
             flags |-> {}, head |-> 0, handed |-> 0, nslabs |-> 0, lastlen |-> 0,
             lastdata |-> NULL, ret |-> NULL, panic |-> FALSE, grew |-> FALSE,
             live |-> {}, slabs |-> <<>>, released |-> <<>>, src |-> <<>>,
             fresh |-> <<>>]

SlabOp(name) ==
  [SlabNoOp EXCEPT !.name = name, !.head = slab.head, !.handed = handed,
                   !.nslabs = Len(slab.slabs),
                   !.lastlen = slab.slabs[Len(slab.slabs)].len,
                   !.lastdata = slab.slabs[Len(slab.slabs)].data,
                   !.live = heap.live, !.slabs = slab.slabs]

\* reallocate / allocate / free through make_alloc(SlabArena&): the arena, the
\* heap and the caller's block.
SlabStep(usePtr, new, align, flags, okSlab, okList) ==
  LET ptr == IF usePtr THEN cur.ptr ELSE NULL
      old == IF usePtr THEN cur.size ELSE 0
      r == slab_alloc(slab, heap, ptr, old, new, align, flags, okSlab, okList)
  IN
  /\ slab.alive
  /\ usePtr => cur.ptr # NULL
  /\ is_power_of_two(align)
  /\ slab' = r.slab
  /\ heap' = r.heap
  /\ handed' = IF r.ret = NULL THEN handed
               ELSE IF r.grew THEN new ELSE r.slab.head
  /\ cur' = IF r.ret # NULL THEN [ptr |-> r.ret, size |-> new]
            ELSE IF new <= 0 /\ usePtr THEN NoBlock ELSE cur
  /\ UNCHANGED <<arena, ctx, arr>>

SlabRealloc(usePtr, new, align, flags, okSlab, okList) ==
  LET ptr == IF usePtr THEN cur.ptr ELSE NULL
      old == IF usePtr THEN cur.size ELSE 0
      r == slab_alloc(slab, heap, ptr, old, new, align, flags, okSlab, okList)
  IN
  /\ SlabStep(usePtr, new, align, flags, okSlab, okList)
  /\ op' = [SlabOp("slab_realloc") EXCEPT !.ptr = ptr, !.old = old, !.new = new,
              !.align = align, !.flags = flags, !.ret = r.ret, !.panic = r.panic,
              !.grew = r.grew]
  /\ UNCHANGED mem

\* free_all(alloc) on the slab arena.
SlabFreeAll ==
  LET r == slab_free_all(slab, heap) IN
  /\ slab.alive
  /\ slab' = r.slab
  /\ heap' = r.heap
  /\ handed' = 0
  /\ cur' = NoBlock
  /\ op' = [SlabOp("slab_free_all") EXCEPT !.flags = {FREE_ALL}, !.released = r.released]
  /\ UNCHANGED <<arena, mem, ctx, arr>>

SlabDestroy ==
  LET r == slab_destroy(slab, heap) IN
  /\ slab.alive
  /\ slab' = r.slab
  /\ heap' = r.heap
  /\ cur' = NoBlock
  /\ op' = SlabOp("slab_destroy")
  /\ UNCHANGED <<arena, mem, handed, ctx, arr>>

InitSlab ==
  LET m == make_slab_arena(SlabSize) IN
  /\ slab = m.slab
  /\ heap = m.heap
  /\ handed = 0
  /\ cur = NoBlock
  /\ op = SlabNoOp
  /\ arena = IdleArena
  /\ mem = <<>>
  /\ ctx = IdleCtx /\ arr = NoArray

\* The same call with the bytes of slab 0 and of the active slab in mem
\* (addresses as keys): a request that fits is copied by arena_alloc into the
\* active slab, one that grows by std_alloc into the new slab of `size` bytes,
\* which holds garbage when aligned_malloc returns it.
SlabReallocMem(usePtr, new, align, flags, garbage) ==
  LET ptr == IF usePtr THEN cur.ptr ELSE NULL
      old == IF usePtr THEN cur.size ELSE 0
      r == slab_alloc(slab, heap, ptr, old, new, align, flags, TRUE, TRUE)
      src == IF old > 0 THEN Block(mem, NULL, ptr, old) ELSE <<>>
      zero == NON_ZERO \notin flags
      size == slab_growth_size(new, slab.slabs[1].len)
      block == r.ret..(r.ret + max(size, old) - 1)
      first == slab.slabs[1].data..(slab.slabs[1].data + slab.slabs[1].len - 1)
      g == [a \in first \cup block |->
              IF a \in block THEN garbage[a - r.ret] ELSE mem[a]]
  IN
  /\ SlabStep(usePtr, new, align, flags, TRUE, TRUE)
  /\ mem' = IF r.ret = NULL THEN mem
            ELSE IF r.grew THEN copy(g, r.ret, size, src, old, zero)
            ELSE copy(mem, r.ret, new, src, old, zero)
  /\ op' = [SlabOp("slab_realloc") EXCEPT !.ptr = ptr, !.old = old, !.new = new,
              !.align = align, !.flags = flags, !.ret = r.ret, !.panic = r.panic,
              !.grew = r.grew, !.src = src,
              !.fresh = IF r.ret = NULL THEN <<>>
                        ELSE Block(IF r.grew THEN g ELSE mem, NULL, r.ret, new)]

\* make_slab_arena with the bytes of slab 0, which allocate() zero-fills.
InitSlabMem ==
  LET m == make_slab_arena(SlabMemSize) IN
  /\ slab = m.slab
  /\ heap = m.heap
  /\ handed = 0
  /\ cur = NoBlock
  /\ op = SlabNoOp
  /\ arena = IdleArena
  /\ mem = [a \in m.slab.slabs[1].data..(m.slab.slabs[1].data + SlabMemSize - 1) |-> 0]
  /\ ctx = IdleCtx /\ arr = NoArray

NextSlabMem ==
  \/ /\ heap.next <= MaxSlabMemBlocks
     /\ \E usePtr \in BOOLEAN, new \in 0..(SlabMemSize + 1), nz \in BOOLEAN :
          LET ptr == IF usePtr THEN cur.ptr ELSE NULL
              old == IF usePtr THEN cur.size ELSE 0
              flags == IF nz THEN {NON_ZERO} ELSE {}
              grows == slab_alloc(slab, heap, ptr, old, new, 1, flags, TRUE, TRUE).grew
          IN \E garbage \in IF grows THEN Garbage(max(SlabMemSize + 1, old)) ELSE {NoMem} :
               SlabReallocMem(usePtr, new, 1, flags, garbage)
  \/ \E i \in 0..SlabMemSize, v \in Bytes : HeapWrite(i, v)
  \/ SlabFreeAll

\* The three allocators with the bytes they hand out: a behaviour is one of
\* the fixed arena over a dirty buffer, of std_alloc, or of the slab arena.
InitZero == InitMem \/ InitHeap \/ InitSlabMem

NextZero ==
  \/ arena.len > 0 /\ NextMem
  \/ arena.len = 0 /\ slab.list = NULL /\ NextHeap
  \/ slab.list # NULL /\ NextSlabMem

SpecZero == InitZero /\ [][NextZero]_vars

\* fail: the call of the backing allocator that finds no memory, if any.
NextSlab ==
  \/ /\ heap.next <= MaxBlocks
     /\ \E usePtr \in BOOLEAN, new \in 0..(SlabSize + 1), align \in {1, 2},
           np \in BOOLEAN, fail \in {"none", "slab"} :
          SlabRealloc(usePtr, new, align, IF np THEN {NO_PANIC} ELSE {},
                      fail # "slab", fail # "list")
  \/ SlabFreeAll
  \/ SlabDestroy

SpecSlab == InitSlab /\ [][NextSlab]_vars

\* Allocations of a whole slab each, until the slab list itself has to grow.
NextSlabList ==
  \/ /\ heap.next <= MaxListBlocks
     /\ \E new \in {1, SlabSize}, np \in BOOLEAN, fail \in {"none", "slab", "list"} :
          SlabRealloc(FALSE, new, 1, IF np THEN {NO_PANIC} ELSE {},
                      fail # "slab", fail # "list")
  \/ SlabFreeAll
  \/ SlabDestroy

SpecSlabList == InitSlab /\ [][NextSlabList]_vars

\* A caller that keeps every block the slab arena returned: mem.held is the set
\* of blocks it holds, a block leaving the set when reallocate is given it and
\* returns its replacement.  block is a held block or NoBlock (nullptr, 0).
SlabReallocHeld(block, new, align, okSlab) ==
  LET r == slab_alloc(slab, heap, block.ptr, block.size, new, align, {NO_PANIC},
                      okSlab, TRUE)
      got == [ptr |-> r.ret, size |-> new]
  IN
  /\ slab.alive
  /\ slab' = r.slab
  /\ heap' = r.heap
  /\ handed' = IF r.ret = NULL THEN handed
               ELSE IF r.grew THEN new ELSE r.slab.head
  /\ cur' = IF r.ret # NULL THEN got ELSE cur
  /\ mem' = IF r.ret = NULL THEN mem
            ELSE [held |-> (mem.held \ {block}) \cup {got}]
  /\ op' = [SlabOp("slab_realloc") EXCEPT !.ptr = block.ptr, !.old = block.size,
              !.new = new, !.align = align, !.flags = {NO_PANIC}, !.ret = r.ret,
              !.panic = r.panic, !.grew = r.grew]
  /\ UNCHANGED <<arena, ctx, arr>>

\* free_all(alloc): the caller holds no block of the arena afterwards.
SlabFreeAllHeld ==
  LET r == slab_free_all(slab, heap) IN
  /\ slab.alive
  /\ slab' = r.slab
  /\ heap' = r.heap
  /\ handed' = 0
  /\ cur' = NoBlock
  /\ mem' = [held |-> {}]
  /\ op' = [SlabOp("slab_free_all") EXCEPT !.flags = {FREE_ALL}, !.released = r.released]
  /\ UNCHANGED <<arena, ctx, arr>>

InitSlabHeld ==
  LET m == make_slab_arena(SlabSize) IN
  /\ slab = m.slab
  /\ heap = m.heap
  /\ handed = 0
  /\ cur = NoBlock
  /\ op = SlabNoOp
  /\ arena = IdleArena
  /\ mem = [held |-> {}]
  /\ ctx = IdleCtx /\ arr = NoArray

\* Requests with sizes > 0 and alignments 1 and 2, on nullptr or on any block
\* held, as long as aligned_free has been given only blocks it allocated.
NextSlabHeld ==
  \/ /\ heap.next <= MaxBlocks
     /\ ~heap.ifree /\ ~heap.dfree
     /\ \E block \in mem.held \cup {NoBlock}, new \in 1..(SlabSize + 1),
           align \in {1, 2}, okSlab \in BOOLEAN :
          SlabReallocHeld(block, new, align, okSlab)
  \/ SlabFreeAllHeld

SpecSlabHeld == InitSlabHeld /\ [][NextSlabHeld]_vars

(***************************************************************************)
(* ALIGNMENT                                                               *)
(* The three allocators asked for the alignments of the tests: a behaviour *)
(* is one of a fixed arena over a buffer at any of AlignBases, of          *)
(* std_alloc, or of a slab arena whose slabs are long enough to serve an   *)
(* aligned request after an unaligned one.                                 *)
(***************************************************************************)
TestAligns == {1, 4, 16, 32, 64}

AlignBases == (FirstBase..(FirstBase + BaseSpread)) \cup {4 * DEFAULT_ALIGN}

InitAlignArena ==
  /\ \E b \in AlignBases : arena = make_arena(b, AlignArenaLen)
  /\ mem = [a \in MemDomain(AlignArenaLen) |-> 0]
  /\ cur = NoBlock
  /\ op = NoOp
  /\ heap = IdleHeap /\ slab = IdleSlab /\ handed = 0
  /\ ctx = IdleCtx /\ arr = NoArray

InitAlignSlab ==
  LET m == make_slab_arena(AlignSlabSize) IN
  /\ slab = m.slab
  /\ heap = m.heap
  /\ handed = 0
  /\ cur = NoBlock
  /\ op = SlabNoOp
  /\ arena = IdleArena
  /\ mem = NoMem
  /\ ctx = IdleCtx /\ arr = NoArray

InitAlign == InitAlignArena \/ InitHeap \/ InitAlignSlab

NextAlign ==
  \/ /\ arena.len > 0
     /\ \/ \E usePtr \in BOOLEAN, new \in {1, MaxReq}, align \in TestAligns :
            ArenaRealloc(usePtr, new, align, {NO_PANIC})
        \/ ArenaFreeAll
  \/ /\ arena.len = 0 /\ slab.list = NULL
     /\ heap.next <= MaxHeapBlocks
     /\ \E new \in 1..HeapLen, align \in TestAligns :
          \E garbage \in Garbage(max(new, cur.size)) :
            HeapRealloc(cur.ptr # NULL, new, align, {}, TRUE, garbage)
  \/ /\ slab.list # NULL
     /\ \/ /\ heap.next <= MaxSlabMemBlocks
           /\ \E usePtr \in BOOLEAN, new \in {1, MaxReq}, align \in TestAligns :
                SlabRealloc(usePtr, new, align, {}, TRUE, TRUE)
        \/ SlabFreeAll

SpecAlign == InitAlign /\ [][NextAlign]_vars

(***************************************************************************)
(* CONTEXT ALLOCATORS                                                      *)
(* An Allocator value is named by what it allocates from: "std" (the       *)
(* heap), "user" (an allocator the program made, say over an arena of its  *)
(* own), "temp" (DefaultTempAlloc's arena).  An Allocator* is named by the *)
(* object it points to: "&ctx" is the thread_local Allocator of            *)
(* ctx_alloc(), "&temp" the member alloc of the thread_local               *)
(* DefaultTempAlloc, "&std" and "&user" Allocator objects of the program.  *)
(***************************************************************************)
Deref(ref, c) ==
  CASE ref = "&ctx" -> c.val
    [] ref = "&temp" -> "temp"
    [] ref = "&std" -> "std"
    [] ref = "&user" -> "user"

\* Allocator& ctx_alloc()
ctx_alloc == "&ctx"

\* Allocator& ctx_temp_alloc() { thread_local DefaultTempAlloc alloc; return ctx_alloc(); }
ctx_temp_alloc == ctx_alloc

CtxNoOp == [name |-> "init", used |-> "none", owner |-> "none", arg |-> 0,
            len |-> 0, cap |-> 0, data |-> <<>>, alloc |-> "none", head |-> 0,
            ret |-> NULL, panic |-> FALSE, realloc |-> FALSE, vals |-> <<>>]

\* detail::ScopedAllocator(_alloc): prev(ctx_alloc()), ctx_alloc() = _alloc
ScopePush(a) ==
  /\ Len(ctx.scopes) < MaxScopes
  /\ ctx' = [val |-> a, scopes |-> Append(ctx.scopes, ctx.val)]
  /\ op' = [CtxNoOp EXCEPT !.name = "scope_push", !.used = a]
  /\ UNCHANGED <<arena, mem, cur, heap, slab, handed, arr>>

ScopePopRestoresOutermost ==
  /\ Len(ctx.scopes) > 0
  /\ ctx' = [val |-> ctx.scopes[1],
             scopes |-> SubSeq(ctx.scopes, 1, Len(ctx.scopes) - 1)]
  /\ op' = [CtxNoOp EXCEPT !.name = "scope_pop"]
  /\ UNCHANGED <<arena, mem, cur, heap, slab, handed, arr>>

\* ~ScopedAllocator(): ctx_alloc() = prev
ScopePop ==
  /\ Len(ctx.scopes) > 0
  /\ ctx' = [val |-> ctx.scopes[Len(ctx.scopes)],
             scopes |-> SubSeq(ctx.scopes, 1, Len(ctx.scopes) - 1)]
  /\ op' = [CtxNoOp EXCEPT !.name = "scope_pop"]
  /\ UNCHANGED <<arena, mem, cur, heap, slab, handed, arr>>

\* allocate(ctx_temp_alloc(), n, align): the request goes to the allocator the
\* returned reference holds.
TempAllocate(n, align) ==
  LET a == Deref(ctx_temp_alloc, ctx)
      r == arena_alloc(arena, n, align, {NO_PANIC})
      h == std_alloc(heap, NULL, 0, n, align, {NO_PANIC}, TRUE)
  IN
  /\ heap.next <= MaxBlocks
  /\ arena' = IF a = "temp" THEN r.arena ELSE arena
  /\ heap' = IF a = "std" THEN h.heap ELSE heap
  /\ op' = [CtxNoOp EXCEPT !.name = "temp_allocate", !.used = a, !.arg = n,
              !.head = arena.head,
              !.ret = IF a = "temp" THEN r.ret ELSE IF a = "std" THEN h.ret ELSE NULL]
  /\ UNCHANGED <<mem, cur, slab, handed, ctx, arr>>

\* free_all(ctx_temp_alloc())
TempFreeAll ==
  LET a == Deref(ctx_temp_alloc, ctx)
      r == arena_alloc(arena, 0, DEFAULT_ALIGN, {FREE_ALL})
      h == std_alloc(heap, NULL, 0, 0, DEFAULT_ALIGN, {FREE_ALL}, TRUE)
  IN
  /\ arena' = IF a = "temp" THEN r.arena ELSE arena
  /\ op' = [CtxNoOp EXCEPT !.name = "temp_free_all", !.used = a, !.head = arena.head,
              !.panic = IF a = "std" THEN h.panic ELSE FALSE]
  /\ UNCHANGED <<mem, cur, heap, slab, handed, ctx, arr>>

InitCtx ==
  /\ ctx = [val |-> "std", scopes |-> <<>>]
  /\ arena = make_arena(FirstBase, TempBufLen)
  /\ mem = <<>>
  /\ heap = IdleHeap
  /\ op = CtxNoOp
  /\ cur = NoBlock /\ slab = IdleSlab /\ handed = 0 /\ arr = NoArray

NextCtx ==
  \/ \E a \in {"std", "user"} : ScopePush(a)
  \/ ScopePop
  \/ \E n \in 1..2, align \in {1, 2} : TempAllocate(n, align)
  \/ TempFreeAll

SpecCtx == InitCtx /\ [][NextCtx]_vars

(***************************************************************************)
(* THREADS                                                                 *)
(* In SpecThreads ctx maps each object of the variable alloc of            *)
(* ctx_alloc() to [val, scopes, over]: val is "none" until the object is   *)
(* initialised, scopes are the prev fields of the thread's open            *)
(* ScopedAllocators, over says the thread has overridden the allocator.    *)
(* A step is one call of one thread; the calls of two threads interleave   *)
(* in every order.                                                         *)
(***************************************************************************)
Threads == 1..NumThreads

ctx_alloc_object_shared(t) == 1

\* thread_local Allocator alloc: the object the call of thread t refers to
ctx_alloc_object(t) == t

\* thread_local Allocator alloc = std_alloc(): initialised by the first call
\* that reaches the declaration
ctx_alloc_init(c) == IF c.val = "none" THEN [c EXCEPT !.val = "std"] ELSE c

ThreadOp(name, t, a) == [CtxNoOp EXCEPT !.name = name, !.arg = t, !.used = a]

\* thread t: Allocator& a = ctx_alloc(); the allocator seen is logged
ThreadRead(t) ==
  LET o == ctx_alloc_object(t)
      c == ctx_alloc_init(ctx[o])
  IN
  /\ ctx' = [ctx EXCEPT ![o] = c]
  /\ op' = ThreadOp("thread_read", t, c.val)
  /\ UNCHANGED <<arena, mem, cur, heap, slab, handed, arr>>

\* thread t: ctx_alloc() = a
ThreadAssign(t, a) ==
  LET o == ctx_alloc_object(t)
      c == ctx_alloc_init(ctx[o])
  IN
  /\ c.val # a
  /\ ctx' = [ctx EXCEPT ![o] = [c EXCEPT !.val = a, !.over = TRUE]]
  /\ op' = ThreadOp("thread_assign", t, a)
  /\ UNCHANGED <<arena, mem, cur, heap, slab, handed, arr>>

\* thread t: scope_alloc(a); the ScopedAllocator is an object of thread t
ThreadScopePush(t, a) ==
  LET o == ctx_alloc_object(t)
      c == ctx_alloc_init(ctx[o])
  IN
  /\ Len(ctx[t].scopes) < MaxScopes
  /\ ctx' = [[ctx EXCEPT ![o] = [c EXCEPT !.val = a]]
               EXCEPT ![t].scopes = Append(@, c.val), ![t].over = TRUE]
  /\ op' = ThreadOp("thread_scope_push", t, a)
  /\ UNCHANGED <<arena, mem, cur, heap, slab, handed, arr>>

\* thread t leaves its innermost scope: ctx_alloc() = prev
ThreadScopePop(t) ==
  LET o == ctx_alloc_object(t)
      n == Len(ctx[t].scopes)
  IN
  /\ n > 0
  /\ ctx' = [[ctx EXCEPT ![o].val = ctx[t].scopes[n]]
               EXCEPT ![t].scopes = SubSeq(@, 1, n - 1)]
  /\ op' = ThreadOp("thread_scope_pop", t, ctx[t].scopes[n])
  /\ UNCHANGED <<arena, mem, cur, heap, slab, handed, arr>>

InitThreads ==
  /\ ctx = [t \in Threads |-> [val |-> "none", scopes |-> <<>>, over |-> FALSE]]
  /\ op = CtxNoOp
  /\ arena = IdleArena /\ mem = <<>> /\ cur = NoBlock
  /\ heap = IdleHeap /\ slab = IdleSlab /\ handed = 0 /\ arr = NoArray

NextThreads ==
  \E t \in Threads :
    \/ ThreadRead(t)
    \/ \E a \in {"std", "user"} : ThreadAssign(t, a)
    \/ \E a \in {"std", "user"} : ThreadScopePush(t, a)
    \/ ThreadScopePop(t)

SpecThreads == InitThreads /\ [][NextThreads]_vars

(***************************************************************************)
(* ANY PTR                                                                 *)
(* In SpecAnyPtr cur is the AnyPtr at hand, [ptr, type, from]: from is the *)
(* pointee type of the pointer it was constructed from, "none" for the     *)
(* default constructor and the nullptr literal.  The objects of the        *)
(* program are numbered, object k lies at address k.                       *)
(***************************************************************************)
TypeList == <<"int", "const int", "double", "Arena", "SlabArena">>
TypeNames == {TypeList[k] : k \in 1..Len(TypeList)} \cup {"nullptr_t"}

\* The objects int i, const int ci, double d, Arena arena, SlabArena slabs
ObjType == <<"int", "const int", "double", "Arena", "SlabArena">>

\* detail::type_id<T>(): the address of detail::TypeId<T>::val, 0 for
\* decltype(nullptr)
TypeId(T) ==
  IF T = "nullptr_t" THEN 0 ELSE CHOOSE k \in 1..Len(TypeList) : TypeList[k] = T

\* NonConst<T>
NonConst(T) == IF T = "const int" THEN "int" ELSE T

\* AnyPtr(), AnyPtr(decltype(nullptr))
any_ptr_null == [ptr |-> NULL, type |-> 0, from |-> "none"]

\* AnyPtr(T* _ptr)
any_ptr(T, p) == [ptr |-> p, type |-> TypeId(T), from |-> T]

any_ptr_as_ignores_const(a, T) ==
  IF a.type # TypeId(T) THEN [panic |-> TRUE, ret |-> NULL]
  ELSE [panic |-> FALSE, ret |-> a.ptr]

\* T* AnyPtr::as<T>()
any_ptr_as(a, T) ==
  IF a.type # TypeId(T) /\ a.type # TypeId(NonConst(T))
  THEN [panic |-> TRUE, ret |-> NULL]
  ELSE [panic |-> FALSE, ret |-> a.ptr]

AnyNoOp == [name |-> "init", T |-> "none", panic |-> FALSE, ret |-> NULL,
            new |-> 0, head |-> 0, mem |-> <<>>]

MakeNullAnyPtr ==
  /\ cur # any_ptr_null
  /\ cur' = any_ptr_null
  /\ op' = [AnyNoOp EXCEPT !.name = "any_ptr"]
  /\ UNCHANGED <<arena, mem, heap, slab, handed, ctx, arr>>

\* AnyPtr a = p with p a T*: the address of an object of type T or
\* NonConst<T>, or a null T*
MakeAnyPtr(T, p) ==
  /\ p # NULL => ObjType[p] \in {T, NonConst(T)}
  /\ cur # any_ptr(T, p)
  /\ cur' = any_ptr(T, p)
  /\ op' = [AnyNoOp EXCEPT !.name = "any_ptr", !.T = T]
  /\ UNCHANGED <<arena, mem, heap, slab, handed, ctx, arr>>

\* a.as<T>()
AnyPtrAs(T) ==
  LET r == any_ptr_as(cur, T) IN
  /\ op' = [AnyNoOp EXCEPT !.name = "as", !.T = T, !.panic = r.panic, !.ret = r.ret]
  /\ UNCHANGED <<arena, mem, cur, heap, slab, handed, ctx, arr>>

\* The callback of make_alloc(Arena&) called with the context cur:
\* arena_alloc(*_ctx.as<Arena>(), nullptr, 0, _new, 1, NO_PANIC), the block
\* zero-filled by the caller reallocate().  A null Arena* as context is left
\* out.
ArenaCallback(new) ==
  LET c == any_ptr_as(cur, "Arena")
      r == arena_alloc(arena, new, 1, {NO_PANIC})
      served == ~c.panic /\ r.ret # NULL
  IN
  /\ ~(cur.type = TypeId("Arena") /\ cur.ptr = NULL)
  /\ arena' = IF c.panic THEN arena ELSE r.arena
  /\ mem' = IF served THEN copy(mem, r.ret - arena.base, new, <<>>, 0, TRUE) ELSE mem
  /\ op' = [AnyNoOp EXCEPT !.name = "arena_callback", !.T = "Arena",
              !.panic = c.panic, !.ret = IF c.panic THEN NULL ELSE r.ret,
              !.new = new, !.head = arena.head, !.mem = mem]
  /\ UNCHANGED <<cur, heap, slab, handed, ctx, arr>>

InitAnyPtr ==
  /\ cur = any_ptr_null
  /\ arena = make_arena(FirstBase, MemLen)
  /\ mem = [a \in MemDomain(MemLen) |-> DirtyByte]
  /\ op = AnyNoOp
  /\ heap = IdleHeap /\ slab = IdleSlab /\ handed = 0
  /\ ctx = IdleCtx /\ arr = NoArray

NextAnyPtr ==
  \/ MakeNullAnyPtr
  \/ \E T \in TypeNames \ {"nullptr_t"}, p \in 0..Len(ObjType) : MakeAnyPtr(T, p)
  \/ \E T \in TypeNames : AnyPtrAs(T)
  \/ \E new \in 1..MemLen : ArenaCallback(new)

SpecAnyPtr == InitAnyPtr /\ [][NextAnyPtr]_vars

(***************************************************************************)
(* DYNAMIC ARRAY                                                           *)
(* data holds the cap elements of the storage, those at and after len      *)
(* included.  owner names the allocator that produced the storage.         *)
(***************************************************************************)
Zeros(n) == [i \in 1..n |-> 0]

\* make_array(_len, _cap, _alloc): allocate() zero-fills
make_array(len, cap, ref, c) ==
  [exists |-> TRUE, data |-> Zeros(cap), len |-> len, cap |-> cap, alloc |-> ref,
   owner |-> Deref(ref, c)]

array_realloc_drops_content(data, cap, newcap) == [i \in 1..newcap |-> 0]

\* reallocate(*_array.alloc, data, cap * sizeof(T), _cap * sizeof(T), alignof(T)):
\* copy() of the old storage, the rest zero-filled.
array_realloc(data, cap, newcap) ==
  [i \in 1..newcap |-> IF i <= min(cap, newcap) THEN data[i] ELSE 0]

reserve_by_growth_policy(a, cap, c) ==
  IF cap <= a.cap THEN a
  ELSE [a EXCEPT !.data = array_realloc(a.data, a.cap, next_cap(a.cap, cap)),
                 !.cap = next_cap(a.cap, cap), !.owner = Deref(a.alloc, c)]

\* reserve(Array<T>&, Size)
reserve(a, cap, c) ==
  IF cap <= a.cap THEN a
  ELSE [a EXCEPT !.data = array_realloc(a.data, a.cap, cap), !.cap = cap,
                 !.owner = Deref(a.alloc, c)]

\* resize(Array<T>&, Size)
resize(a, len, c) ==
  IF len <= a.len THEN [a EXCEPT !.len = len]
  ELSE IF len <= a.cap
  THEN [a EXCEPT !.data = [i \in 1..a.cap |-> IF i > a.len /\ i <= len THEN 0 ELSE @[i]],
                 !.len = len]
  ELSE [reserve(a, next_cap(a.cap, len), c) EXCEPT !.len = len]

\* append(Array<T>&, const T&)
append(a, v, c) ==
  LET b == IF a.len = a.cap THEN reserve(a, next_cap(a.cap, a.len + 1), c) ELSE a IN
  [b EXCEPT !.data[a.len + 1] = v, !.len = a.len + 1]

\* append(Array<T>&, Slice<Const<T>>): reserve when high >= cap, then
\* copy(_array(low, high), _values).
append_slice(a, vals, c) ==
  LET low == a.len
      high == a.len + Len(vals)
      b == IF high >= a.cap THEN reserve(a, next_cap(a.cap, high), c) ELSE a
  IN [b EXCEPT !.len = high,
               !.data = [i \in 1..b.cap |->
                           IF i > low /\ i <= high THEN vals[i - low] ELSE @[i]]]

pop_unchecked(a) ==
  [arr |-> [a EXCEPT !.len = a.len - 1], ret |-> 0, panic |-> FALSE]
\* check_bounds(_array.len > 0); return _array.data[--_array.len]
pop(a) ==
  IF ~(a.len > 0) THEN [arr |-> a, ret |-> 0, panic |-> TRUE]
  ELSE [arr |-> [a EXCEPT !.len = a.len - 1], ret |-> a.data[a.len], panic |-> FALSE]

remove_ordered_swaps_last(a, i) ==
  IF ~(i >= 0 /\ i < a.len) THEN [arr |-> a, panic |-> TRUE]
  ELSE [arr |-> [a EXCEPT !.len = a.len - 1, !.data[i + 1] = a.data[a.len]],
        panic |-> FALSE]

\* memmove(data + i, data + i + 1, len - i - 1) unless i is the last index.
remove_ordered(a, i) ==
  IF ~(i >= 0 /\ i < a.len) THEN [arr |-> a, panic |-> TRUE]
  ELSE [arr |-> [a EXCEPT !.len = a.len - 1,
                          !.data = [k \in 1..a.cap |->
                                      IF k > i /\ k < a.len THEN @[k + 1] ELSE @[k]]],
        panic |-> FALSE]

remove_unordered_shifts(a, i) == remove_ordered(a, i)

\* data[i] = data[len - 1] unless i is the last index.
remove_unordered(a, i) ==
  IF ~(i >= 0 /\ i < a.len) THEN [arr |-> a, panic |-> TRUE]
  ELSE [arr |-> [a EXCEPT !.len = a.len - 1,
                          !.data = IF i # a.len - 1
                                   THEN [@ EXCEPT ![i + 1] = a.data[a.len]] ELSE @],
        panic |-> FALSE]

ArrayOp(name, arg, b) ==
  [CtxNoOp EXCEPT !.name = name, !.arg = arg, !.len = arr.len, !.cap = arr.cap,
                  !.data = arr.data, !.owner = arr.owner, !.alloc = arr.alloc,
                  !.realloc = b.cap # arr.cap,
                  !.used = IF b.cap # arr.cap THEN Deref(arr.alloc, ctx) ELSE "none"]

MakeArray(len, cap, ref) ==
  /\ ~arr.exists
  /\ len <= cap
  /\ arr' = make_array(len, cap, ref, ctx)
  /\ op' = [CtxNoOp EXCEPT !.name = "make_array", !.arg = cap, !.alloc = ref,
              !.used = Deref(ref, ctx)]
  /\ UNCHANGED <<arena, mem, cur, heap, slab, handed, ctx>>

\* array[i] = v, bounds-checked
Set(i, v) ==
  /\ arr.exists
  /\ i >= 0 /\ i < arr.len
  /\ arr.data[i + 1] # v
  /\ arr' = [arr EXCEPT !.data[i + 1] = v]
  /\ op' = ArrayOp("set", i, arr)
  /\ UNCHANGED <<arena, mem, cur, heap, slab, handed, ctx>>

Reserve(cap) ==
  /\ arr.exists
  /\ arr' = reserve(arr, cap, ctx)
  /\ op' = ArrayOp("reserve", cap, arr')
  /\ UNCHANGED <<arena, mem, cur, heap, slab, handed, ctx>>

Resize(len) ==
  /\ arr.exists
  /\ arr' = resize(arr, len, ctx)
  /\ op' = ArrayOp("resize", len, arr')
  /\ UNCHANGED <<arena, mem, cur, heap, slab, handed, ctx>>

AppendValue(v) ==
  /\ arr.exists
  /\ arr.len < MaxLen
  /\ arr' = append(arr, v, ctx)
  /\ op' = ArrayOp("append", v, arr')
  /\ UNCHANGED <<arena, mem, cur, heap, slab, handed, ctx>>

AppendSlice(vals) ==
  /\ arr.exists
  /\ arr.len + Len(vals) <= MaxLen
  /\ arr' = append_slice(arr, vals, ctx)
  /\ op' = [ArrayOp("append_slice", Len(vals), arr') EXCEPT !.vals = vals]
  /\ UNCHANGED <<arena, mem, cur, heap, slab, handed, ctx>>

Pop ==
  LET r == pop(arr) IN
  /\ arr.exists
  /\ arr' = r.arr
  /\ op' = [ArrayOp("pop", 0, r.arr) EXCEPT !.ret = r.ret, !.panic = r.panic]
  /\ UNCHANGED <<arena, mem, cur, heap, slab, handed, ctx>>

RemoveOrdered(i) ==
  LET r == remove_ordered(arr, i) IN
  /\ arr.exists
  /\ arr' = r.arr
  /\ op' = [ArrayOp("remove_ordered", i, r.arr) EXCEPT !.panic = r.panic]
  /\ UNCHANGED <<arena, mem, cur, heap, slab, handed, ctx>>

RemoveUnordered(i) ==
  LET r == remove_unordered(arr, i) IN
  /\ arr.exists
  /\ arr' = r.arr
  /\ op' = [ArrayOp("remove_unordered", i, r.arr) EXCEPT !.panic = r.panic]
  /\ UNCHANGED <<arena, mem, cur, heap, slab, handed, ctx>>

\* destroy(Array<T>&): free(*_array.alloc, data, cap * sizeof(T))
DestroyArray ==
  /\ arr.exists
  /\ arr' = NoArray
  /\ op' = [ArrayOp("destroy", 0, arr) EXCEPT !.realloc = arr.cap > 0,
              !.used = IF arr.cap > 0 THEN Deref(arr.alloc, ctx) ELSE "none"]
  /\ UNCHANGED <<arena, mem, cur, heap, slab, handed, ctx>>

InitArray ==
  /\ ctx = [val |-> "std", scopes |-> <<>>]
  /\ arr = NoArray
  /\ op = CtxNoOp
  /\ arena = IdleArena /\ mem = <<>> /\ cur = NoBlock
  /\ heap = IdleHeap /\ slab = IdleSlab /\ handed = 0

NextArray ==
  \/ \E a \in {"std", "user"} : ScopePush(a)
  \/ ScopePop
  \/ \E cap \in 0..MaxInitCap, len \in 0..MaxInitCap, ref \in {ctx_alloc, "&user"} :
       MakeArray(len, cap, ref)
  \/ \E i \in 0..(MaxLen - 1), v \in 0..MaxVal : Set(i, v)
  \/ \E cap \in 0..(MaxLen + 1) : Reserve(cap)
  \/ \E len \in 0..MaxLen : Resize(len)
  \/ \E v \in 0..MaxVal : AppendValue(v)
  \/ DestroyArray

SpecArray == InitArray /\ [][NextArray]_vars

Slices == UNION {[1..n -> 0..MaxVal] : n \in 0..MaxSliceLen}

\* The array operations alone, the array made through an allocator of the
\* program.
NextArrayOps ==
  \/ \E cap \in 0..MaxInitCap, len \in 0..MaxInitCap : MakeArray(len, cap, "&user")
  \/ \E i \in 0..(MaxLen - 1), v \in 0..MaxVal : Set(i, v)
  \/ \E cap \in 0..(MaxLen + 1) : Reserve(cap)
  \/ \E len \in 0..MaxLen : Resize(len)
  \/ \E v \in 0..MaxVal : AppendValue(v)
  \/ \E vals \in Slices : AppendSlice(vals)
  \/ Pop
  \/ \E i \in -1..MaxLen : RemoveOrdered(i)
  \/ \E i \in -1..MaxLen : RemoveUnordered(i)
  \/ DestroyArray

SpecArrayOps == InitArray /\ [][NextArrayOps]_vars

\* for (i = 0; ...; i++) append(slice, values[i]) with values[i] = i: the value
\* appended is the length before the call.
AppendNext ==
  /\ arr.exists
  /\ arr.len < GrowLen
  /\ arr' = append(arr, arr.len, ctx)
  /\ op' = ArrayOp("append", arr.len, arr')
  /\ UNCHANGED <<arena, mem, cur, heap, slab, handed, ctx>>

\* One value at a time appended to make_array<int>(0, 1), pops in between.
NextGrowth ==
  \/ MakeArray(0, 1, "&user")
  \/ AppendNext
  \/ Pop

SpecGrowth == InitArray /\ [][NextGrowth]_vars

(***************************************************************************)
(* SLICE                                                                   *)
(* A slice is [data, len]: data is the position in mem of its first        *)
(* element and mem the elements of the array it was made from.  A          *)
(* reference to an element is the element's position.  A back index        *)
(* len - k is the BackIndex with val = -k.                                 *)
(***************************************************************************)
slice_index_inclusive(s, i) ==
  IF ~(i >= 0 /\ i <= s.len) THEN [panic |-> TRUE, ref |-> NULL]
  ELSE [panic |-> FALSE, ref |-> s.data + i]

subslice_unchecked_high(s, low, high) ==
  IF ~(low >= 0) \/ ~(low <= high) THEN [panic |-> TRUE, slice |-> s]
  ELSE [panic |-> FALSE, slice |-> [data |-> s.data + low, len |-> high - low]]

\* T& operator[](Index _i)
slice_index(s, i) ==
  IF ~(i >= 0 /\ i < s.len) THEN [panic |-> TRUE, ref |-> NULL]
  ELSE [panic |-> FALSE, ref |-> s.data + i]

\* T& operator[](detail::BackIndex _i)
slice_back_index(s, val) == slice_index(s, s.len + val)

\* Slice<T> operator()(Index _low, Index _high)
subslice(s, low, high) ==
  IF ~(low >= 0) \/ ~(low <= high) \/ ~(high <= s.len)
  THEN [panic |-> TRUE, slice |-> s]
  ELSE [panic |-> FALSE, slice |-> [data |-> s.data + low, len |-> high - low]]

\* Slice<T> operator()(OmittedTag, Index _high)
subslice_to(s, high) == subslice(s, 0, high)

\* Slice<T> operator()(Index _low, OmittedTag)
subslice_from(s, low) == subslice(s, low, s.len)

\* Slice<T> operator()(detail::BackIndex _low, OmittedTag)
subslice_back(s, val) == subslice(s, s.len + val, s.len)

SliceNoOp == [name |-> "init", low |-> 0, high |-> 0, data |-> NULL, len |-> 0,
              panic |-> FALSE, ref |-> NULL, val |-> 0]

SliceOp(name, low, high, panic) ==
  [SliceNoOp EXCEPT !.name = name, !.low = low, !.high = high,
                    !.data = cur.data, !.len = cur.len, !.panic = panic]

\* slice[i]: the element read through the reference is logged
SliceIndex(i) ==
  LET r == slice_index(cur, i) IN
  /\ op' = [SliceOp("index", i, i, r.panic) EXCEPT
              !.ref = r.ref, !.val = IF r.ref \in DOMAIN mem THEN mem[r.ref] ELSE 0]
  /\ UNCHANGED <<arena, mem, cur, heap, slab, handed, ctx, arr>>

\* slice[len - k]
SliceBackIndex(k) ==
  LET r == slice_back_index(cur, 0 - k) IN
  /\ op' = [SliceOp("back_index", k, k, r.panic) EXCEPT
              !.ref = r.ref, !.val = IF r.ref \in DOMAIN mem THEN mem[r.ref] ELSE 0]
  /\ UNCHANGED <<arena, mem, cur, heap, slab, handed, ctx, arr>>

\* slice = slice(...): the view is replaced by the subslice unless the call
\* panics
SubSliceStep(name, low, high, r) ==
  /\ cur' = r.slice
  /\ op' = SliceOp(name, low, high, r.panic)
  /\ UNCHANGED <<arena, mem, heap, slab, handed, ctx, arr>>

SubSlice(low, high) == SubSliceStep("subslice", low, high, subslice(cur, low, high))

SubSliceTo(high) == SubSliceStep("subslice_to", 0, high, subslice_to(cur, high))

SubSliceFrom(low) == SubSliceStep("subslice_from", low, 0, subslice_from(cur, low))

\* slice(len - k, _)
SubSliceBack(k) == SubSliceStep("subslice_back", k, 0, subslice_back(cur, 0 - k))

\* int array[L] = {1, 2, ..., L}; Slice<int> slice = {.data = array, .len = L}
InitSlice ==
  /\ \E L \in 0..MaxLen :
       /\ mem = [i \in 1..L |-> i]
       /\ cur = [data |-> 1, len |-> L]
  /\ op = SliceNoOp
  /\ arena = IdleArena /\ heap = IdleHeap /\ slab = IdleSlab /\ handed = 0
  /\ ctx = IdleCtx /\ arr = NoArray

NextSlice ==
  \/ \E i \in -1..(MaxLen + 1) : SliceIndex(i)
  \/ \E k \in 0..(MaxLen + 1) : SliceBackIndex(k)
  \/ \E low, high \in -1..(MaxLen + 1) : SubSlice(low, high)
  \/ \E high \in -1..(MaxLen + 1) : SubSliceTo(high)
  \/ \E low \in -1..(MaxLen + 1) : SubSliceFrom(low)
  \/ \E k \in 0..(MaxLen + 1) : SubSliceBack(k)

SpecSlice == InitSlice /\ [][NextSlice]_vars

(***************************************************************************)
(* RING BUFFER                                                             *)
(* In SpecRing cur is the Ring<T>, [len, head, tail] with len = buf.len,   *)
(* and mem the backing buffer, element i at mem[i].  op.pending is the     *)
(* sequence of the values pushed and not yet popped, oldest first.         *)
(***************************************************************************)
ring_push_unchecked(r, m, v) ==
  [ring |-> [r EXCEPT !.head = (r.head + 1) % r.len],
   mem |-> [m EXCEPT ![r.head] = v], panic |-> FALSE]

ring_pop_without_wrap(r, m) ==
  IF ~(r.head # r.tail) THEN [ring |-> r, ret |-> 0, panic |-> TRUE]
  ELSE [ring |-> [r EXCEPT !.tail = r.tail + 1], ret |-> m[r.tail], panic |-> FALSE]

\* make_ring(_buf)
make_ring(len) == [len |-> len, head |-> 0, tail |-> 0]

\* push(Ring<T>&, const T&)
ring_push(r, m, v) ==
  LET head == (r.head + 1) % r.len IN
  IF ~(head # r.tail) THEN [ring |-> r, mem |-> m, panic |-> TRUE]
  ELSE [ring |-> [r EXCEPT !.head = head], mem |-> [m EXCEPT ![r.head] = v],
        panic |-> FALSE]

\* pop(Ring<T>&): the value of the element referred to is returned
ring_pop(r, m) ==
  IF ~(r.head # r.tail) THEN [ring |-> r, ret |-> 0, panic |-> TRUE]
  ELSE [ring |-> [r EXCEPT !.tail = (r.tail + 1) % r.len], ret |-> m[r.tail],
        panic |-> FALSE]

\* empty(const Ring<T>&)
ring_empty(r) == r.head = r.tail

RingNoOp == [name |-> "init", val |-> 0, ret |-> 0, panic |-> FALSE,
             pending |-> <<>>, before |-> <<>>, ring |-> make_ring(0), buf |-> <<>>]

RingPush(v) ==
  LET r == ring_push(cur, mem, v) IN
  /\ cur' = r.ring
  /\ mem' = r.mem
  /\ op' = [RingNoOp EXCEPT !.name = "push", !.val = v, !.panic = r.panic,
              !.pending = IF r.panic THEN op.pending ELSE Append(op.pending, v),
              !.before = op.pending, !.ring = cur, !.buf = mem]
  /\ UNCHANGED <<arena, heap, slab, handed, ctx, arr>>

RingPop ==
  LET r == ring_pop(cur, mem) IN
  /\ cur' = r.ring
  /\ mem' = mem
  /\ op' = [RingNoOp EXCEPT !.name = "pop", !.ret = r.ret, !.panic = r.panic,
              !.pending = IF r.panic \/ op.pending = <<>> THEN op.pending
                          ELSE Tail(op.pending),
              !.before = op.pending, !.ring = cur, !.buf = mem]
  /\ UNCHANGED <<arena, heap, slab, handed, ctx, arr>>

\* int buf[N] = {}; auto ring = make_ring(make_slice(buf)), N > 1
InitRing ==
  /\ \E N \in 2..RingLen :
       /\ cur = make_ring(N)
       /\ mem = [i \in 0..(N - 1) |-> 0]
  /\ op = RingNoOp
  /\ arena = IdleArena /\ heap = IdleHeap /\ slab = IdleSlab /\ handed = 0
  /\ ctx = IdleCtx /\ arr = NoArray

NextRing ==
  \/ \E v \in 0..MaxVal : RingPush(v)
  \/ RingPop

SpecRing == InitRing /\ [][NextRing]_vars

(***************************************************************************)
(* RANGE UTILITIES: merge                                                  *)
(* In SpecMerge cur is the pair of sorted inputs [a, b] (sequences of      *)
(* keys) and mem the destination, a sequence of elements.  An element is   *)
(* [key, from, idx]: from is 0 or 1 for the argument it was passed in, 2   *)
(* for the destination's own, idx its place there.  The comparator looks   *)
(* at the key alone.                                                       *)
(***************************************************************************)
Elem(key, from, idx) == [key |-> key, from |-> from, idx |-> idx]

Tagged(keys, from) == [i \in 1..Len(keys) |-> Elem(keys[i], from, i)]

\* [](const T& _a, const T& _b) { return _a < _b; }
comp(a, b) == a.key < b.key

takes_src_1_on_ties(x1, x0) == ~comp(x0, x1)

\* if (_comp(_src_1[i1], _src_0[i0])): the next element comes from _src_1
takes_src_1(x1, x0) == comp(x1, x0)

\* copy(_dst(d, _), _src(i, _)): the shorter of the two lengths is copied
copy_tail(dst, d, src, i) ==
  LET n == min(Len(dst) - d, Len(src) - i) IN
  [k \in 1..Len(dst) |-> IF k > d /\ k <= d + n THEN src[i + (k - d)] ELSE dst[k]]

RECURSIVE merge_loop(_, _, _, _, _, _)
\* The loop of merge and the copy after it; i0, i1 and d count from 0.
merge_loop(dst, src0, src1, i0, i1, d) ==
  IF ~(i0 < Len(src0)) THEN copy_tail(dst, d, src1, i1)
  ELSE IF i1 = Len(src1)
  THEN copy_tail(copy_tail(dst, d, src0, i0), d, src1, i1)
  ELSE IF takes_src_1(src1[i1 + 1], src0[i0 + 1])
  THEN merge_loop([dst EXCEPT ![d + 1] = src1[i1 + 1]], src0, src1, i0, i1 + 1, d + 1)
  ELSE merge_loop([dst EXCEPT ![d + 1] = src0[i0 + 1]], src0, src1, i0 + 1, i1, d + 1)

\* merge(_dst, _src_0, _src_1, _comp)
merge(dst, src0, src1) ==
  IF Len(dst) < Len(src0) + Len(src1) THEN [dst |-> dst, panic |-> TRUE]
  ELSE [dst |-> merge_loop(dst, src0, src1, 0, 0, 0), panic |-> FALSE]

MergeNoOp == [name |-> "init", src0 |-> <<>>, src1 |-> <<>>, dst |-> <<>>,
              panic |-> FALSE]

\* i32 dst[n] = {}; merge(make_slice(dst), src0, src1), the inputs in either
\* order
Merge(swap) ==
  LET src0 == Tagged(IF swap THEN cur.b ELSE cur.a, 0)
      src1 == Tagged(IF swap THEN cur.a ELSE cur.b, 1)
      dst == [i \in 1..Len(mem) |-> Elem(0, 2, i)]
      r == merge(dst, src0, src1)
  IN
  /\ mem' = r.dst
  /\ op' = [name |-> "merge", src0 |-> src0, src1 |-> src1, dst |-> dst,
            panic |-> r.panic]
  /\ UNCHANGED <<arena, cur, heap, slab, handed, ctx, arr>>

SortedKeys ==
  {s \in UNION {[1..n -> 0..MaxVal] : n \in 0..MaxMergeLen} :
     \A i \in 1..Len(s), j \in 1..Len(s) : i < j => s[i] <= s[j]}

InitMerge ==
  /\ \E a \in SortedKeys, b \in SortedKeys : cur = [a |-> a, b |-> b]
  /\ \E n \in 0..(2 * MaxMergeLen + 1) : mem = [i \in 1..n |-> Elem(0, 2, i)]
  /\ op = MergeNoOp
  /\ arena = IdleArena /\ heap = IdleHeap /\ slab = IdleSlab /\ handed = 0
  /\ ctx = IdleCtx /\ arr = NoArray

NextMerge == \E swap \in BOOLEAN : Merge(swap)

SpecMerge == InitMerge /\ [][NextMerge]_vars

----------------------------------------------------------------------------
(* C1: a fixed-arena request (new > 0, FREE_ALL not set) succeeds iff the  *)
(* least offset o >= head with base + o a multiple of align satisfies      *)
(* o + new <= buffer length; on success it returns base + o and sets       *)
(* head = o + new.                                                         *)
LeastAligned(base, head, align) ==
  CHOOSE o \in head..(head + align) :
    /\ (base + o) % align = 0
    /\ \A p \in head..(o - 1) : (base + p) % align # 0

C1_ArenaAllocContract ==
  (op.name = "arena_realloc" /\ op.new > 0) =>
    LET o == LeastAligned(arena.base, op.head, op.align) IN
    /\ (op.ret # NULL) <=> (o + op.new <= arena.len)
    /\ op.ret # NULL => (op.ret = arena.base + o /\ arena.head = o + op.new)
    /\ op.ret = NULL => arena.head = op.head

C1_Witness ==
  /\ op.name = "arena_realloc" /\ op.new > 0 /\ op.ret # NULL
  /\ op.head > 0
  /\ op.ret - arena.base > op.head

----------------------------------------------------------------------------
(* C5: reallocate(old_ptr # null, old size M, new size N > 0): the new     *)
(* block holds the first min(M, N) bytes of the old block and no byte      *)
(* outside the N-byte new block is written.                                *)
C5_ReallocCopiesMinAndStaysInside ==
  (op.name = "arena_realloc" /\ op.ptr # NULL /\ op.new > 0 /\ op.ret # NULL) =>
    /\ \A i \in 1..min(op.old, op.new) : mem[op.ret - arena.base + i - 1] = op.src[i]
    /\ op.written \subseteq op.ret..(op.ret + op.new - 1)

----------------------------------------------------------------------------
(* C2: after a slab arena grows for a request of size n, head = n.         *)
C2_HeadAfterGrowthIsRequest ==
  (op.name = "slab_realloc" /\ op.grew) => slab.head = op.new

(* C3: a served request appends exactly one slab when it does not fit in   *)
(* the part of the active slab not yet handed out, and none when it fits.  *)
FitsUnused(o) ==
  LeastAligned(o.lastdata, o.handed, o.align) + o.new <= o.lastlen

C3_GrowsIffNotFit ==
  (op.name = "slab_realloc" /\ op.new > 0 /\ op.ret # NULL) =>
    /\ op.grew <=> ~FitsUnused(op)
    /\ Len(slab.slabs) = op.nslabs + (IF FitsUnused(op) THEN 0 ELSE 1)

(* C6: with NO_PANIC a request of the slab arena that cannot be satisfied  *)
(* returns null and never panics, whichever call of the backing allocator  *)
(* failed, and leaves slab count and head unchanged; without the flag the  *)
(* failure panics.                                                         *)
C6_NoPanicReturnsNull ==
  (op.name = "slab_realloc" /\ op.new > 0) =>
    /\ NO_PANIC \in op.flags => ~op.panic
    /\ op.ret = NULL => (Len(slab.slabs) = op.nslabs /\ slab.head = op.head)
    /\ (NO_PANIC \notin op.flags /\ op.ret = NULL) => op.panic

(* C9: free-all releases every slab of index >= 1 exactly once (free() is  *)
(* given its data once, and the block was still held by the arena), keeps  *)
(* slab 0 (not released, not reallocated) as the only slab, sets head = 0; *)
(* a next request that fits slab 0 is served from slab 0 without growing.  *)
C9_FreeAllKeepsSlabZero ==
  op.name = "slab_free_all" =>
    /\ Len(op.released) = op.nslabs - 1
    /\ \A i \in 2..op.nslabs :
         /\ Cardinality({k \in DOMAIN op.released : op.released[k] = op.slabs[i].data}) = 1
         /\ (op.slabs[i].data \div BlockStride) \in op.live
         /\ (op.slabs[i].data \div BlockStride) \notin heap.live
    /\ (op.slabs[1].data \div BlockStride) \in heap.live
    /\ slab.slabs = <<op.slabs[1]>>
    /\ slab.head = 0
    /\ \A n \in 1..slab.slabs[1].len, align \in Aligns, ok \in BOOLEAN :
         LeastAligned(slab.slabs[1].data, 0, align) + n <= slab.slabs[1].len =>
           LET r == slab_alloc(slab, heap, NULL, 0, n, align, {}, ok, ok) IN
           /\ ~r.grew /\ ~r.panic
           /\ r.ret >= slab.slabs[1].data
           /\ r.ret + n <= slab.slabs[1].data + slab.slabs[1].len
           /\ Len(r.slab.slabs) = 1

(* C10: after destroy every block the arena obtained from its backing      *)
(* allocator has been released exactly once.                               *)
C10_DestroyReleasesEachBlockOnce ==
  ~slab.alive => (heap.live = {} /\ ~heap.dfree /\ ~heap.ifree)

----------------------------------------------------------------------------
(* C4: every grow and free of an array's storage goes through the          *)
(* allocator that produced the storage, also for an array made through the *)
(* context allocator when scope_alloc has replaced it since.               *)
C4_SameAllocatorForEveryCall ==
  (op.name \in {"reserve", "resize", "append", "destroy"} /\ op.realloc /\ op.cap > 0) =>
    op.used = op.owner

(* C7: resize(array, new_len): new_len <= len changes the length alone;    *)
(* new_len > len leaves every element of [old_len, new_len) zero and the   *)
(* elements of [0, old_len) as they were, with or without a reallocation.  *)
C7_ResizeZeroFills ==
  op.name = "resize" =>
    /\ arr.len = op.arg
    /\ \A i \in 1..min(op.len, op.arg) : arr.data[i] = op.data[i]
    /\ op.arg <= op.len => (arr.cap = op.cap /\ arr.data = op.data)
    /\ op.arg > op.len => \A i \in (op.len + 1)..op.arg : arr.data[i] = 0

(* C8: ctx_temp_alloc() is the temporary allocator over the fixed buffer,  *)
(* not the context allocator: a request made through it bumps the          *)
(* temporary arena and free_all through it resets that arena.              *)
C8_TempAllocIsTheTempArena ==
  /\ op.name = "temp_allocate" =>
       (op.used = "temp" /\ (op.ret # NULL => arena.head = op.ret - arena.base + op.arg))
  /\ op.name = "temp_free_all" => (op.used = "temp" /\ arena.head = 0 /\ ~op.panic)

----------------------------------------------------------------------------
(* C11: in every state of the fixed arena 0 <= head <= buffer length, and  *)
(* no reallocate, allocate or free call, served or not, decreases head:    *)
(* only free_all does.                                                     *)
C11_ArenaHeadInRange ==
  /\ 0 <= arena.head /\ arena.head <= arena.len
  /\ op.name = "arena_realloc" => arena.head >= op.head

C11_Witness ==
  /\ op.name = "arena_realloc" /\ op.new > 0 /\ op.ret = NULL
  /\ op.head > 0 /\ arena.head = op.head /\ arena.head < arena.len

----------------------------------------------------------------------------
(* C12: from construction until destroy the slab list is not empty, slab 0 *)
(* is the buffer allocated at construction, of the configured slab size,   *)
(* and still held, and 0 <= head <= length of the last slab; a freshly     *)
(* made arena has one slab and head = 0.                                   *)
C12_SlabArenaInvariant ==
  slab.alive =>
    /\ Len(slab.slabs) >= 1
    /\ slab.slabs[1] = make_slab_arena(SlabSize).slab.slabs[1]
    /\ (slab.slabs[1].data \div BlockStride) \in heap.live
    /\ 0 <= slab.head /\ slab.head <= slab.slabs[Len(slab.slabs)].len
    /\ op.name = "init" => (Len(slab.slabs) = 1 /\ slab.head = 0)

----------------------------------------------------------------------------
(* C13: 0 <= len <= cap after every operation on an array, and no          *)
(* operation other than destroy decreases cap.                             *)
C13_ArrayLenWithinCap ==
  arr.exists =>
    /\ 0 <= arr.len /\ arr.len <= arr.cap
    /\ op.name \notin {"init", "make_array"} => arr.cap >= op.cap

C13_Witness ==
  /\ arr.exists /\ op.name = "append_slice" /\ op.realloc
  /\ op.cap > 0 /\ arr.len > op.cap

----------------------------------------------------------------------------
(* C14: a fixed-arena request that does not fit returns null, panics iff   *)
(* NO_PANIC is not set, and leaves head unchanged: every later request is  *)
(* served at the offset it has from the head before the failed request.    *)
C14_ArenaOutOfMemory ==
  (/\ op.name = "arena_realloc" /\ op.new > 0
   /\ LeastAligned(arena.base, op.head, op.align) + op.new > arena.len) =>
    /\ op.ret = NULL
    /\ op.panic <=> NO_PANIC \notin op.flags
    /\ arena.head = op.head
    /\ \A n \in 1..MaxReq, align \in Aligns :
         LET o == LeastAligned(arena.base, op.head, align)
             r == arena_alloc(arena, n, align, {})
         IN IF o + n <= arena.len THEN r.ret = arena.base + o /\ ~r.panic
            ELSE r.ret = NULL

C14_Witness ==
  /\ op.name = "arena_realloc" /\ op.new > 0 /\ op.ret = NULL
  /\ NO_PANIC \in op.flags /\ ~op.panic
  /\ op.head > 0 /\ op.head < arena.len

----------------------------------------------------------------------------
(* C15: free_all on a fixed arena returns null and sets head = 0: the      *)
(* arena is in the state make_arena gives over the same buffer, so it      *)
(* accepts what a freshly made arena accepts.                              *)
C15_ArenaFreeAll ==
  op.name = "arena_free_all" =>
    /\ op.ret = NULL
    /\ arena.head = 0
    /\ arena = make_arena(arena.base, arena.len)
    /\ \A n \in 1..ArenaLen, align \in Aligns :
         arena_alloc(arena, n, align, {}) =
           arena_alloc(make_arena(arena.base, arena.len), n, align, {})

C15_Witness ==
  op.name = "arena_free_all" /\ op.head = arena.len /\ arena.len > 0

----------------------------------------------------------------------------
(* C16: free of a block on a fixed arena (reallocate with new size 0)      *)
(* returns null and changes neither head nor a byte of the buffer; the     *)
(* requests that follow are served at or after the old head.               *)
C16_ArenaFreeIsNoOp ==
  [][(op'.name = "arena_realloc" /\ op'.new = 0) =>
       /\ op'.ret = NULL /\ ~op'.panic
       /\ arena' = arena
       /\ mem' = mem
       /\ \A n \in 1..MemLen, align \in Aligns :
            LET r == arena_alloc(arena', n, align, {NO_PANIC}) IN
            r.ret # NULL => r.ret >= arena.base + arena.head]_vars

C16_Witness ==
  /\ op.name = "arena_realloc" /\ op.new = 0 /\ op.ptr # NULL
  /\ op.head > 0 /\ arena.head = op.head
  /\ \E i \in 0..(arena.head - 1) : mem[i] # 0

----------------------------------------------------------------------------
(* C19: the slab appended for a request of size n has length               *)
(* max(n, slab size the arena was made with).                              *)
C19_NewSlabLength ==
  (op.name = "slab_realloc" /\ op.grew) =>
    /\ Len(slab.slabs) = op.nslabs + 1
    /\ slab.slabs[Len(slab.slabs)].len = max(op.new, SlabSize)
    /\ op.new > SlabSize => slab.slabs[Len(slab.slabs)].len = op.new
    /\ op.new <= SlabSize => slab.slabs[Len(slab.slabs)].len = SlabSize

C19_Witness ==
  /\ op.name = "slab_realloc" /\ op.grew /\ op.new > SlabSize
  /\ slab.slabs[1].len = SlabSize

----------------------------------------------------------------------------
(* C20: a request with FREE_ALL on std_alloc panics, whatever the other    *)
(* arguments and also with NO_PANIC, returns nothing and frees nothing:    *)
(* the heap and the caller's block are as before the call.                 *)
C20_StdAllocFreeAllIsFatal ==
  [][(op'.name = "heap_realloc" /\ FREE_ALL \in op'.flags) =>
       /\ op'.panic
       /\ op'.ret = NULL
       /\ heap' = heap /\ mem' = mem /\ cur' = cur]_vars

C20_Witness ==
  /\ op.name = "heap_realloc" /\ op.flags = {FREE_ALL, NO_PANIC}
  /\ op.ptr # NULL /\ op.new = 0 /\ op.panic
  /\ (op.ptr \div BlockStride) \in heap.live

----------------------------------------------------------------------------
(* C17: for std_alloc, the fixed arena and the slab arena, a returned      *)
(* block of new bytes made from an old block of old bytes: without         *)
(* NON_ZERO every byte of the block after the copied old content is zero,  *)
(* whatever the memory held before; with NON_ZERO the bytes after the old  *)
(* bytes copy() copies hold what they held before the call.  fresh is the  *)
(* content of the block's memory before the copy.  A block served from a   *)
(* slab that the heap has already taken back (C10) is left out: its bytes  *)
(* are not the arena's any more.                                           *)
C17_ZeroFill ==
  (/\ op.name \in {"arena_realloc", "heap_realloc", "slab_realloc"}
   /\ op.ret # NULL
   /\ op.name = "slab_realloc" => (op.ret \div BlockStride) \in heap.live) =>
    /\ NON_ZERO \notin op.flags =>
         \A i \in min(op.old, op.new)..(op.new - 1) : mem[op.ret - arena.base + i] = 0
    /\ NON_ZERO \in op.flags =>
         \A i \in op.old..(op.new - 1) : mem[op.ret - arena.base + i] = op.fresh[i + 1]

C17_Witness ==
  /\ op.name = "slab_realloc" /\ NON_ZERO \notin op.flags /\ op.ret # NULL
  /\ (op.ret \div BlockStride) \in heap.live
  /\ op.old < op.new /\ op.fresh[op.new] # 0
  /\ mem[op.ret + op.new - 1] = 0

----------------------------------------------------------------------------
(* C18: the address of every non-null pointer that std_alloc, the fixed    *)
(* arena or the slab arena (from the active slab or from a new slab)       *)
(* returns is a multiple of the alignment asked for, for the alignments    *)
(* 1, 4, 16, 32 and 64.                                                    *)
C18_ReturnedPointersAreAligned ==
  (/\ op.name \in {"arena_realloc", "heap_realloc", "slab_realloc"}
   /\ op.ret # NULL) =>
    /\ op.align \in TestAligns
    /\ op.ret % op.align = 0

C18_Witness ==
  /\ op.name = "slab_realloc" /\ ~op.grew /\ op.ret # NULL
  /\ op.align = 64 /\ op.head > 0
  /\ op.lastdata % op.align # 0
  /\ op.ret > op.lastdata + op.head

----------------------------------------------------------------------------
(* C21: an append reallocates the array only when the capacity is          *)
(* insufficient: append of a slice of k values changes the storage and cap *)
(* only when len + k > cap, append of one value only when len + 1 > cap;   *)
(* with len + k <= cap (k = 0 and the exact fit len + k = cap included)    *)
(* cap is as before the call.                                              *)
C21_AppendReallocatesOnlyIfNeeded ==
  /\ op.name = "append_slice" =>
       /\ op.realloc => op.len + op.arg > op.cap
       /\ op.len + op.arg <= op.cap => arr.cap = op.cap
  /\ op.name = "append" =>
       /\ op.realloc => op.len + 1 > op.cap
       /\ op.len + 1 <= op.cap => arr.cap = op.cap

----------------------------------------------------------------------------
\* The elements of an array, those in [0, len) of its storage.
Elems(data, len) == SubSeq(data, 1, len)

(* C22: append of one value (of a slice of k values) to an array holding   *)
(* the sequence s leaves it holding s followed by the appended values in   *)
(* order, with len increased by 1 (by k) and cap >= len, with and without  *)
(* a reallocation; a pop right after append(v) returns v and leaves the    *)
(* length and the sequence the array had before the append.                *)
C22_AppendThenPop ==
  /\ [](/\ op.name = "append" =>
             /\ arr.len = op.len + 1 /\ arr.cap >= arr.len
             /\ Elems(arr.data, arr.len) = Append(Elems(op.data, op.len), op.arg)
        /\ op.name = "append_slice" =>
             /\ arr.len = op.len + Len(op.vals) /\ arr.cap >= arr.len
             /\ Elems(arr.data, arr.len) = Elems(op.data, op.len) \o op.vals)
  /\ [][(op.name = "append" /\ op'.name = "pop") =>
          /\ ~op'.panic
          /\ op'.ret = op.arg
          /\ arr'.len = op.len
          /\ Elems(arr'.data, arr'.len) = Elems(op.data, op.len)]_vars

C22_Witness ==
  /\ op.name = "append" /\ op.realloc /\ op.arg = MaxVal
  /\ op.len = MaxInitCap /\ op.data[1] # op.data[op.len]
  /\ arr.data[arr.len] = MaxVal

----------------------------------------------------------------------------
(* C23: reserve(array, target) with target <= cap changes nothing and      *)
(* does not reallocate; with target > cap it reallocates the storage to    *)
(* exactly target elements, cap = target and not the value of the growth   *)
(* policy; in both cases len and the elements in [0, len) are as before.   *)
C23_ReserveIsExact ==
  op.name = "reserve" =>
    /\ op.arg <= op.cap =>
         /\ ~op.realloc
         /\ arr.cap = op.cap /\ arr.data = op.data
    /\ op.arg > op.cap =>
         /\ op.realloc
         /\ arr.cap = op.arg /\ Len(arr.data) = op.arg
    /\ arr.len = op.len
    /\ Elems(arr.data, arr.len) = Elems(op.data, op.len)

C23_Witness ==
  /\ op.name = "reserve" /\ op.realloc
  /\ op.cap > 0 /\ op.len = op.cap /\ op.data[op.len] = MaxVal
  /\ arr.cap = op.arg /\ arr.cap # next_cap(op.cap, op.arg)
  /\ arr.data[arr.len] = MaxVal

----------------------------------------------------------------------------
\* The capacity after an append of one value to an array of length len and
\* capacity cap is the largest of 8, len + 1 and cap * 3 / 2 rounded down.
IsGrownCap(n, cap, len) ==
  /\ n \in {8, len + 1, (cap * 3) \div 2}
  /\ n >= 8 /\ n >= len + 1 /\ n >= (cap * 3) \div 2

(* C24: values appended one at a time to an array that starts at capacity  *)
(* 1: an append reallocates iff it finds len = cap, and then to exactly    *)
(* max(8, len + 1, cap * 3 / 2) with integer division; a reallocation from *)
(* a capacity cap >= 8 gives the capacity cap * 3 / 2 rounded down, which  *)
(* is at least (3 * cap - 1) / 2; cap >= len after every append.           *)
C24_GrowthLaw ==
  op.name = "append" =>
    /\ op.realloc <=> op.len = op.cap
    /\ op.realloc => IsGrownCap(arr.cap, op.cap, op.len)
    /\ ~op.realloc => arr.cap = op.cap
    /\ (op.realloc /\ op.cap >= 8) =>
         /\ arr.cap = (op.cap * 3) \div 2
         /\ 2 * arr.cap >= 3 * op.cap - 1
    /\ arr.cap >= arr.len /\ arr.len = op.len + 1

\* An odd capacity (27, reached from 1 by 8, 12, 18, 27) grows by less than
\* 3/2.
C24_Witness ==
  /\ op.name = "append" /\ op.realloc
  /\ op.cap >= 8 /\ op.cap % 2 = 1
  /\ arr.len = op.cap + 1

\* C24 as stated: every reallocation from a capacity cap >= 8 multiplies the
\* capacity by at least 3/2.
C24_GrowsByThreeHalves ==
  (op.name = "append" /\ op.realloc /\ op.cap >= 8) => 2 * arr.cap >= 3 * op.cap

----------------------------------------------------------------------------
(* C25: pop on an array of length 0 panics (bounds-check failure) and      *)
(* leaves len, cap and the storage as they were; on a non-empty array it   *)
(* decrements len by one and returns the element that was last, cap and    *)
(* every element of the storage unchanged.                                 *)
C25_Pop ==
  op.name = "pop" =>
    /\ op.panic <=> op.len = 0
    /\ op.len = 0 => arr.len = 0
    /\ op.len > 0 => (arr.len = op.len - 1 /\ op.ret = op.data[op.len])
    /\ arr.cap = op.cap /\ arr.data = op.data
    /\ arr.alloc = op.alloc

C25_Witness ==
  /\ op.name = "pop" /\ op.panic
  /\ arr.len = 0 /\ arr.cap > 0 /\ arr.data[1] = MaxVal

----------------------------------------------------------------------------
(* C26: remove_ordered(array, i) with 0 <= i < len removes element i:      *)
(* len decreases by one and the other elements keep their order, those     *)
(* after i one slot lower; with i < 0 or i >= len it panics and leaves the *)
(* array as it was.                                                        *)
C26_RemoveOrdered ==
  op.name = "remove_ordered" =>
    /\ op.panic <=> ~(0 <= op.arg /\ op.arg < op.len)
    /\ op.panic => (arr.len = op.len /\ arr.data = op.data)
    /\ ~op.panic =>
         /\ arr.len = op.len - 1
         /\ Elems(arr.data, arr.len) =
              SubSeq(op.data, 1, op.arg) \o SubSeq(op.data, op.arg + 2, op.len)
    /\ arr.cap = op.cap /\ arr.alloc = op.alloc

C26_Witness ==
  /\ op.name = "remove_ordered" /\ ~op.panic
  /\ op.len = MaxLen /\ op.arg = 0
  /\ op.data[2] # op.data[3]
  /\ arr.data[1] = op.data[2] /\ arr.data[2] = op.data[3]

----------------------------------------------------------------------------
\* How many of the elements of s are v.
Count(v, s) == Cardinality({k \in 1..Len(s) : s[k] = v})

(* C27: remove_unordered(array, i) with 0 <= i < len decrements len by one *)
(* and puts the former last element into slot i (when i was not the last   *)
(* slot), every other slot untouched: the remaining elements are the old   *)
(* multiset without the removed element; with i < 0 or i >= len it panics  *)
(* and leaves the array as it was.                                         *)
C27_RemoveUnordered ==
  op.name = "remove_unordered" =>
    /\ op.panic <=> ~(0 <= op.arg /\ op.arg < op.len)
    /\ op.panic => (arr.len = op.len /\ arr.data = op.data)
    /\ ~op.panic =>
         /\ arr.len = op.len - 1
         /\ arr.data = [op.data EXCEPT ![op.arg + 1] = op.data[op.len]]
         /\ \A v \in 0..MaxVal :
              Count(v, Elems(arr.data, arr.len)) =
                Count(v, Elems(op.data, op.len))
                  - (IF op.data[op.arg + 1] = v THEN 1 ELSE 0)
    /\ arr.cap = op.cap /\ arr.alloc = op.alloc

C27_Witness ==
  /\ op.name = "remove_unordered" /\ ~op.panic
  /\ op.len = MaxLen /\ op.arg = 0
  /\ op.data[2] # op.data[3]
  /\ arr.data[1] = op.data[3] /\ arr.data[2] = op.data[2]

----------------------------------------------------------------------------
(* C28: with bounds checking on, on a slice of length L: slice[i] succeeds *)
(* iff 0 <= i < L and then refers to element i; slice[len - k] succeeds    *)
(* iff 1 <= k <= L and then refers to element L - k.  So slice[-1],        *)
(* slice[L], slice[len] and slice[len - (L + 1)] panic.                    *)
C28_SliceIndexing ==
  /\ op.name = "index" =>
       /\ ~op.panic <=> (0 <= op.low /\ op.low < op.len)
       /\ ~op.panic => (op.ref = op.data + op.low /\ op.val = mem[op.data + op.low])
  /\ op.name = "back_index" =>
       /\ ~op.panic <=> (1 <= op.low /\ op.low <= op.len)
       /\ ~op.panic =>
            /\ op.ref = op.data + (op.len - op.low)
            /\ op.val = mem[op.data + (op.len - op.low)]
  /\ op.name \in {"index", "back_index"} => cur = [data |-> op.data, len |-> op.len]

C28_Witness ==
  /\ op.name = "back_index" /\ ~op.panic
  /\ op.data > 1 /\ op.len >= 2 /\ op.low = op.len
  /\ op.val = op.data

----------------------------------------------------------------------------
\* The slice sub lies within the slice [data, len].
Within(sub, data, len) == sub.data >= data /\ sub.data + sub.len <= data + len

\* What slice(low, high) does on the slice [data, len] found before the call.
SubsliceLaw(low, high) ==
  /\ ~op.panic <=> (0 <= low /\ low <= high /\ high <= op.len)
  /\ ~op.panic =>
       /\ cur = [data |-> op.data + low, len |-> high - low]
       /\ Within(cur, op.data, op.len)
  /\ op.panic => cur = [data |-> op.data, len |-> op.len]

(* C29: slice(low, high) on a slice of length L succeeds iff               *)
(* 0 <= low <= high <= L and then is the view that starts at element low   *)
(* and has length high - low, so it lies within its parent; it panics when *)
(* low < 0, low > high or high > L.  slice(_, high) behaves as             *)
(* slice(0, high), slice(low, _) as slice(low, L) and slice(len - k, _) as *)
(* slice(L - k, L).                                                        *)
C29_Subslicing ==
  /\ op.name = "subslice" => SubsliceLaw(op.low, op.high)
  /\ op.name = "subslice_to" => SubsliceLaw(0, op.high)
  /\ op.name = "subslice_from" => SubsliceLaw(op.low, op.len)
  /\ op.name = "subslice_back" => SubsliceLaw(op.len - op.low, op.len)
  /\ Within(cur, 1, Len(mem))

C29_Witness ==
  /\ op.name = "subslice" /\ ~op.panic
  /\ op.data > 1 /\ op.low > 0 /\ op.high < op.len
  /\ cur.data = op.data + op.low

----------------------------------------------------------------------------
(* C30: scope_alloc(a) makes a the context allocator, and it stays so      *)
(* until a scope is entered or left; leaving a scope restores the          *)
(* allocator that was current when that scope was entered, the scopes      *)
(* being left in reverse order of entry; once every scope is left          *)
(* ctx_alloc() is the allocator from before the outermost scope_alloc, the *)
(* heap allocator by default.                                              *)
C30_ScopeAllocRestores ==
  /\ [](/\ op.name = "scope_push" => ctx.val = op.used
        /\ Len(ctx.scopes) = 0 => ctx.val = "std")
  /\ [][/\ op'.name = "scope_push" =>
             (Len(ctx'.scopes) = Len(ctx.scopes) + 1
              /\ ctx'.scopes[Len(ctx'.scopes)] = ctx.val)
        /\ op'.name = "scope_pop" =>
             (/\ Len(ctx'.scopes) = Len(ctx.scopes) - 1
              /\ ctx'.val = ctx.scopes[Len(ctx.scopes)]
              /\ \A k \in 1..Len(ctx'.scopes) : ctx'.scopes[k] = ctx.scopes[k])
        /\ op'.name \notin {"scope_push", "scope_pop"} => ctx' = ctx]_vars

\* An inner scope left while the outer one, entered from the default
\* allocator, is still open.
C30_Witness ==
  /\ op.name = "scope_pop"
  /\ Len(ctx.scopes) >= 1 /\ ctx.scopes[1] = "std" /\ ctx.val = "user"

----------------------------------------------------------------------------
(* C31: each thread has its own context allocator.  Under every            *)
(* interleaving of the calls of the threads, a call of one thread          *)
(* (ctx_alloc(), an assignment through it, scope_alloc or the exit of a    *)
(* scope) leaves what ctx_alloc() returns in every other thread as it was, *)
(* and a thread that has not overridden its context allocator sees the     *)
(* heap allocator.                                                         *)
C31_ContextAllocatorPerThread ==
  /\ [](op.name = "thread_read" =>
          /\ op.used = ctx[op.arg].val
          /\ ~ctx[op.arg].over => op.used = "std")
  /\ [][\A t \in Threads : t # op'.arg => ctx'[t] = ctx[t]]_vars

\* Thread 1 reads the heap allocator after thread 2 has replaced its own.
C31_Witness ==
  /\ op.name = "thread_read" /\ op.arg = 1 /\ op.used = "std"
  /\ ~ctx[1].over
  /\ ctx[2].over /\ ctx[2].val = "user"

----------------------------------------------------------------------------
\* What the callback of make_alloc(Arena&) does with a context of another
\* type: it panics and neither the arena nor the memory changes.
CallbackRejectsOtherContext ==
  op.name = "arena_callback" =>
    /\ op.panic <=> cur.from # "Arena"
    /\ op.panic => (arena.head = op.head /\ mem = op.mem /\ op.ret = NULL)

----------------------------------------------------------------------------
(* C33: the ring buffer is first in, first out: in every sequence of       *)
(* pushes and pops, head and tail wrapping around the end of the buffer    *)
(* included, a pop that succeeds returns the oldest value pushed and not   *)
(* yet popped, and empty(ring) holds iff every value pushed has been       *)
(* popped.                                                                 *)
C33_RingIsFifo ==
  /\ (op.name = "pop" /\ ~op.panic) =>
       /\ op.before # <<>>
       /\ op.ret = Head(op.before)
  /\ ring_empty(cur) <=> op.pending = <<>>

\* A pop whose element lies before the one pushed last: tail has wrapped or
\* is about to, head already has.
C33_Witness ==
  /\ op.name = "pop" /\ ~op.panic
  /\ op.ring.head < op.ring.tail
  /\ Len(op.before) = op.ring.len - 1 /\ Len(op.before) >= 2
  /\ op.before[1] # op.before[2]
  /\ op.ret = op.before[1]

----------------------------------------------------------------------------
\* The number of elements the ring r holds.
Held(r) == (r.head - r.tail + r.len) % r.len

(* C34: a ring over a buffer of N > 1 elements holds at most N - 1: push   *)
(* panics iff the ring holds N - 1 elements, pop panics iff it is empty; a *)
(* push or pop that panics leaves head, tail and the elements unchanged;   *)
(* 0 <= head < N and 0 <= tail < N in every state.                         *)
C34_RingCapacity ==
  /\ 0 <= cur.head /\ cur.head < cur.len
  /\ 0 <= cur.tail /\ cur.tail < cur.len
  /\ Len(op.pending) <= cur.len - 1
  /\ Held(cur) = Len(op.pending)
  /\ op.name = "push" => (op.panic <=> Len(op.before) = cur.len - 1)
  /\ op.name = "pop" => (op.panic <=> Len(op.before) = 0)
  /\ op.panic => (cur = op.ring /\ mem = op.buf /\ op.pending = op.before)

C34_Witness ==
  /\ op.name = "push" /\ op.panic
  /\ cur.len = RingLen /\ cur.head < cur.tail
  /\ Len(op.pending) = RingLen - 1

----------------------------------------------------------------------------
(* C35: merge(dst, src0, src1, comp) of two inputs sorted by comp: with    *)
(* dst.len >= src0.len + src1.len the first src0.len + src1.len elements   *)
(* of dst are the elements of both inputs, each once, in sorted order,     *)
(* equal elements of src0 before those of src1 and the elements of one     *)
(* input in their order, the rest of dst untouched; this for empty and     *)
(* non-empty inputs in either argument order.  With                        *)
(* dst.len < src0.len + src1.len it panics and writes nothing.             *)
C35_Merge ==
  op.name = "merge" =>
    LET n == Len(op.src0) + Len(op.src1)
        out == SubSeq(mem, 1, n)
        Inputs == {op.src0[i] : i \in 1..Len(op.src0)}
                    \cup {op.src1[i] : i \in 1..Len(op.src1)}
    IN
    /\ op.panic <=> Len(op.dst) < n
    /\ op.panic => mem = op.dst
    /\ ~op.panic =>
         /\ Len(mem) = Len(op.dst)
         /\ {out[i] : i \in 1..n} = Inputs
         /\ \A i \in 1..n, j \in 1..n : i < j =>
              /\ out[i].key <= out[j].key
              /\ out[i].key = out[j].key => out[i].from <= out[j].from
              /\ out[i].from = out[j].from => out[i].idx < out[j].idx
         /\ \A k \in (n + 1)..Len(mem) : mem[k] = op.dst[k]

\* Both inputs non-empty with a tie between them, and room to spare in dst.
C35_Witness ==
  /\ op.name = "merge" /\ ~op.panic
  /\ Len(op.src0) = MaxMergeLen /\ Len(op.src1) = MaxMergeLen
  /\ Len(mem) > Len(op.src0) + Len(op.src1)
  /\ \E i \in 1..Len(op.src0), j \in 1..Len(op.src1) : op.src0[i].key = op.src1[j].key
  /\ mem[1].from = 1

----------------------------------------------------------------------------
(* C36: a reallocation of a block that lies in a slab (old pointer not     *)
(* null) through the slab-arena allocator makes the backing allocator      *)
(* release nothing: every block of the heap live before the call is live   *)
(* after it, nothing is freed that the heap did not hand out, and the      *)
(* slabs of the list, the one that holds the old block included, stay in   *)
(* the list.                                                               *)
C36_SlabReallocReleasesNothing ==
  (op.name = "slab_realloc" /\ op.ptr # NULL /\ op.new > 0) =>
    /\ op.live \subseteq heap.live
    /\ ~heap.ifree /\ ~heap.dfree
    /\ \A k \in 1..Len(op.slabs) :
         /\ k <= Len(slab.slabs) /\ slab.slabs[k] = op.slabs[k]
         /\ (slab.slabs[k].data \div BlockStride) \in heap.live

----------------------------------------------------------------------------
\* n is a positive power of two.
IsPositivePowerOfTwo(n) == \E k \in 0..(MaxAlignLog + 1) : n = Pow2(k)

(* C37: every request an allocator accepts has an alignment that is a      *)
(* positive power of two, the check rejecting 0 as it rejects 3 and 5, so  *)
(* that no request makes the fixed arena return a pointer outside its      *)
(* buffer or move head outside [0, buffer length].                         *)
C37_AlignmentIsPositivePowerOfTwo ==
  (op.name = "arena_realloc" /\ op.new > 0) =>
       /\ IsPositivePowerOfTwo(op.align)
       /\ 0 <= arena.head /\ arena.head <= arena.len
       /\ op.ret # NULL =>
            (arena.base <= op.ret /\ op.ret + op.new <= arena.base + arena.len)

----------------------------------------------------------------------------
\* The blocks a and b share no byte.
Disjoint(a, b) == a.ptr + a.size <= b.ptr \/ b.ptr + b.size <= a.ptr

\* Block b lies in [data, data + len).
Inside(b, data, len) == data <= b.ptr /\ b.ptr + b.size <= data + len

(* C38: the blocks a slab arena returned since its last free_all, and that *)
(* the caller has not given back to reallocate, are pairwise disjoint and  *)
(* each lies entirely inside one of the arena's slabs that is still        *)
(* allocated, for requests with sizes > 0 and power-of-two alignments.     *)
C38_SlabBlocksDisjointInLiveSlabs ==
  (slab.alive /\ ~heap.ifree /\ ~heap.dfree) =>
    /\ \A a \in mem.held : \A b \in mem.held \ {a} : Disjoint(a, b)
    /\ \A b \in mem.held :
         \E k \in 1..Len(slab.slabs) :
           /\ Inside(b, slab.slabs[k].data, slab.slabs[k].len)
           /\ (slab.slabs[k].data \div BlockStride) \in heap.live

\* The fixed arena's half of the same statement, step by step: a block the
\* arena returns starts at or after the head the call found and ends at the
\* head it leaves, inside the buffer, and only free_all moves head back; so
\* the blocks returned between two free_all calls are stacked without overlap
\* in [base, base + length).
ArenaBlocksStacked ==
  op.name = "arena_realloc" =>
    /\ op.head <= arena.head /\ arena.head <= arena.len
    /\ (op.ret # NULL) =>
         /\ arena.base + op.head <= op.ret
         /\ op.ret + op.new = arena.base + arena.head

----------------------------------------------------------------------------
\* The last call was a reallocation of a held block on std_alloc() with
\* NO_PANIC for which aligned_malloc found no memory.
FailedHeapRealloc ==
  /\ op.name = "heap_realloc"
  /\ op.ptr # NULL /\ op.new > 0
  /\ NO_PANIC \in op.flags /\ FREE_ALL \notin op.flags
  /\ op.ret = NULL

(* C39: when the heap allocator finds no memory for a reallocation and     *)
(* NO_PANIC is set, it returns null without panicking and leaves the old   *)
(* block allocated and its bytes as they were, so the caller still holds   *)
(* it.                                                                     *)
C39_FailedReallocKeepsOldBlock ==
  FailedHeapRealloc =>
    /\ ~op.panic
    /\ (op.ptr \div BlockStride) \in heap.live
    /\ ~heap.dfree /\ ~heap.ifree
    /\ cur = [ptr |-> op.ptr, size |-> op.old]
    /\ Block(mem, NULL, op.ptr, op.old) = op.src

C39_Witness ==
  /\ FailedHeapRealloc
  /\ op.old > 0 /\ \E i \in 1..op.old : op.src[i] # 0
  /\ (op.ptr \div BlockStride) \in heap.live

====
